---- MODULE Spec2Model ----
(***************************************************************************)
(* Canonicalization edit pipeline of tailwindcss-canonical-classes:        *)
(*   core/edits      dedupeEdits, applyTextEdits, buildCanonicalEdits,     *)
(*                   canonicalizeDocument, inferLanguageId                 *)
(*   core/design-system   getDesignSystem and its promise cache            *)
(*   cli             main, resolveTargetFiles, processFile                 *)
(* Texts are sequences of one-character strings; offsets are 0-based and   *)
(* ranges half-open, as in the source.                                     *)
(***************************************************************************)
EXTENDS Integers, Sequences, FiniteSets, TLC

VARIABLES
    aText,      \* applyTextEdits / dedupeEdits: the text argument
    aEdits,     \* the edits argument (a sequence of TextEdit records)
    aOut,       \* <<>> before the call, <<r>> after applyTextEdits returned r
    aDedup,     \* <<>> before the call, <<r>> after dedupeEdits returned r
    aAfter,     \* <<>> before the call, <<the caller's edits array after it>>
    aAgain,     \* <<>>, or <<r>> after a second applyTextEdits call returned r
    docPath,    \* canonicalizeDocument: the file path
    docDs,      \* the design system
    docOrig,    \* the text before the first pass
    docText,    \* the text after the passes made so far
    docPass,    \* number of canonicalizeDocument calls made
    docEdits,   \* the edits built by each pass
    designSystemCache,  \* Map from cache key to the index of the cached load
    loads,      \* the loadTailwindDesignSystem calls started so far (promises)
    callers,    \* the getDesignSystem calls made so far
    clears,     \* number of clearDesignSystemCache calls made
    reads,      \* the entry-stylesheet reads issued, as <<load, path>>
    envBuilder, \* typeof __unstable__loadDesignSystem in the host
    envReadable,\* the stylesheet paths fs.readFile can read
    envDesign,  \* what the builder makes of the entry stylesheet
    cli,        \* "packages" (packages/cli) or "standalone" (src/cli.ts)
    argTargets, \* args.targets
    argHelp,    \* args.help
    argFlags,   \* the parsed --check and --dry-run flags
    writeMode,  \* args.writeMode
    pc,         \* position of main
    targets,    \* result of resolveTargetFiles
    designSystem,   \* <<>> or <<the value main got from the loader>>
    results,    \* FileResult[] of main
    fileStep,   \* position of processFile for targets[Len(results) + 1]
    fileText,   \* text read by the current processFile
    fileNext,   \* nextText and editCount computed by the current processFile
    disk,       \* content of every file on disk
    ioLog,      \* the steps taken on the target files, as <<step, file>>, in order
    exitCode,   \* <<>> while running, <<code>> once the process has exited
    lPath,      \* inferLanguageId / isSupportedExtension: a file path
    lOther,     \* a second file path
    lLang,      \* <<>> or <<inferLanguageId(lPath)>>
    lOtherLang, \* <<>> or <<inferLanguageId(lOther)>>
    lSupported, \* <<>> or <<isSupportedExtension(lPath)>>
    ldCssBase,  \* loadTailwindDesignSystem: cssBase of the load
    ldRequests, \* the callback calls the builder makes, in order
    ldAnswers,  \* the outcome of each callback call made so far
    ldState,    \* "building", then "fulfilled" or "rejected"
    sCall,      \* summarizeResults: the FileResult[] argument, an order in which
                \* the same results are given again, and what the calls returned
    pCall       \* the Prettier preprocess step: its arguments, its position, the
                \* core functions it has called and the promise it returned

applyVars == <<aText, aEdits, aOut, aDedup, aAfter, aAgain>>

docVars == <<docPath, docDs, docOrig, docText, docPass, docEdits>>

cacheVars == <<designSystemCache, loads, callers, clears, reads,
               envBuilder, envReadable, envDesign>>

runVars == <<cli, argTargets, argHelp, argFlags, writeMode, pc, targets, designSystem,
             results, fileStep, fileText, fileNext, disk, ioLog, exitCode>>

langVars == <<lPath, lOther, lLang, lOtherLang, lSupported>>

loaderVars == <<ldCssBase, ldRequests, ldAnswers, ldState>>

summaryVars == <<sCall>>

prettierVars == <<pCall>>

vars == <<aText, aEdits, aOut, aDedup, aAfter, aAgain,
          docPath, docDs, docOrig, docText, docPass, docEdits,
          designSystemCache, loads, callers, clears, reads,
          envBuilder, envReadable, envDesign,
          cli, argTargets, argHelp, argFlags, writeMode, pc, targets,
          designSystem, results, fileStep, fileText, fileNext, disk, ioLog, exitCode,
          lPath, lOther, lLang, lOtherLang, lSupported,
          ldCssBase, ldRequests, ldAnswers, ldState,
          sCall, pCall>>

----------------------------------------------------------------------------
(* Bounds of the model *)

MaxLen == 3
MaxEdits == 3
MaxDocLen == 3
MaxPasses == 2
MaxCalls == 2
MaxClears == 1
MaxFiles == 2

----------------------------------------------------------------------------
(* Small helpers *)

Min(a, b) == IF a < b THEN a ELSE b
Max(a, b) == IF a > b THEN a ELSE b

\* applyTextEdits never looks at a character, so its texts carry a
\* different character at every offset and any misplaced one shows.
Letters == <<"a", "b", "c", "d", "e", "f", "g", "h">>

Replacements == { <<"X">>, <<"X", "Y">> }

TextOfLen(n) == SubSeq(Letters, 1, n)

Texts == { TextOfLen(n) : n \in 0..MaxLen }

\* String.prototype.slice(from, to): negative indices count from the end,
\* both are clamped to the length, an empty string when from >= to.
Slice(s, from, to) ==
    LET n == Len(s)
        f == IF from < 0 THEN Max(n + from, 0) ELSE Min(from, n)
        t == IF to < 0 THEN Max(n + to, 0) ELSE Min(to, n)
    IN  IF f >= t THEN <<>> ELSE SubSeq(s, f + 1, t)

\* String.prototype.slice(from)
SliceFrom(s, from) == Slice(s, from, Len(s))

TextEdit(s, e, r, o) ==
    [startOffset |-> s, endOffset |-> e, replacement |-> r, original |-> o]

----------------------------------------------------------------------------
(* dedupeEdits *)

\* the key without the end offset
RangeKeyStartOnly(edit) == <<edit.startOffset, edit.startOffset>>

RangeKey(edit) == <<edit.startOffset, edit.endOffset>>

RECURSIVE DedupeFrom(_, _, _, _)
DedupeFrom(edits, i, seen, result) ==
    IF i > Len(edits) THEN result
    ELSE IF RangeKey(edits[i]) \in seen
         THEN DedupeFrom(edits, i + 1, seen, result)
         ELSE DedupeFrom(edits, i + 1, seen \cup {RangeKey(edits[i])},
                         Append(result, edits[i]))

dedupeEdits(edits) == DedupeFrom(edits, 1, {}, <<>>)

----------------------------------------------------------------------------
(* applyTextEdits *)

\* the comparator with its operands swapped (ascending order)
CompareEditsAscending(a, b) == a.startOffset - b.startOffset

\* comparator of the sort: (a, b) => b.startOffset - a.startOffset
CompareEdits(a, b) == b.startOffset - a.startOffset

\* a sort that puts an element before the elements that compare equal to it
RECURSIVE InsertSortedTiesFirst(_, _)
InsertSortedTiesFirst(sorted, e) ==
    IF sorted = <<>> THEN <<e>>
    ELSE IF CompareEdits(Head(sorted), e) < 0
         THEN <<Head(sorted)>> \o InsertSortedTiesFirst(Tail(sorted), e)
         ELSE <<e>> \o sorted

\* Array.prototype.sort is stable: an element goes after every element that
\* does not compare greater than it.
RECURSIVE InsertSorted(_, _)
InsertSorted(sorted, e) ==
    IF sorted = <<>> THEN <<e>>
    ELSE IF CompareEdits(Head(sorted), e) <= 0
         THEN <<Head(sorted)>> \o InsertSorted(Tail(sorted), e)
         ELSE <<e>> \o sorted

RECURSIVE SortEdits(_)
SortEdits(edits) ==
    IF edits = <<>> THEN <<>>
    ELSE InsertSorted(SortEdits(SubSeq(edits, 1, Len(edits) - 1)),
                      edits[Len(edits)])

\* lastStart is <<>> for Number.POSITIVE_INFINITY and <<n>> for the number n
Infinity == <<>>

\* the overlap guard that also rejects a touching edit
ExceedsOrTouchesLastStart(endOffset, lastStart) ==
    lastStart # Infinity /\ endOffset >= lastStart[1]

\* the overlap guard left out
ExceedsLastStartNever(endOffset, lastStart) == FALSE

ExceedsLastStart(endOffset, lastStart) ==
    lastStart # Infinity /\ endOffset > lastStart[1]

\* the splice that inserts the replacement and keeps the replaced range
SpliceInsertOnly(output, edit) ==
    Slice(output, 0, edit.startOffset) \o edit.replacement
        \o SliceFrom(output, edit.startOffset)

Splice(output, edit) ==
    Slice(output, 0, edit.startOffset) \o edit.replacement
        \o SliceFrom(output, edit.endOffset)

\* a loop in which a skipped edit moves lastStart too
RECURSIVE ApplyLoopSkipMoves(_, _, _, _, _)
ApplyLoopSkipMoves(sorted, i, output, lastStart, applied) ==
    IF i > Len(sorted)
    THEN [output |-> output, applied |-> applied]
    ELSE IF ExceedsLastStart(sorted[i].endOffset, lastStart)
         THEN ApplyLoopSkipMoves(sorted, i + 1, output,
                                 <<sorted[i].startOffset>>, applied)
         ELSE ApplyLoopSkipMoves(sorted, i + 1, Splice(output, sorted[i]),
                                 <<sorted[i].startOffset>>, Append(applied, sorted[i]))

\* the loop over the sorted edits; applied collects the edits that were spliced
RECURSIVE ApplyLoop(_, _, _, _, _)
ApplyLoop(sorted, i, output, lastStart, applied) ==
    IF i > Len(sorted)
    THEN [output |-> output, applied |-> applied]
    ELSE IF ExceedsLastStart(sorted[i].endOffset, lastStart)
         THEN ApplyLoop(sorted, i + 1, output, lastStart, applied)
         ELSE ApplyLoop(sorted, i + 1, Splice(output, sorted[i]),
                        <<sorted[i].startOffset>>, Append(applied, sorted[i]))

ApplyRun(text, edits) ==
    IF Len(edits) = 0
    THEN [output |-> text, applied |-> <<>>]
    ELSE ApplyLoop(SortEdits(edits), 1, text, Infinity, <<>>)

applyTextEdits(text, edits) == ApplyRun(text, edits).output

\* edits.sort(...) on the array that was passed in
CallerEditsSortedInPlace(edits) == SortEdits(edits)

\* [...edits].sort(...) sorts a copy: the caller's array is as it was
CallerEdits(edits) == edits

----------------------------------------------------------------------------
(* Inputs of the pure edit functions *)

\* edits with 0 <= startOffset < endOffset <= length of the text
ValidEdits(text) ==
    { TextEdit(s, e, r, Slice(text, s, e)) :
        <<s, e, r>> \in { x \in (0..Len(text)) \X (0..Len(text)) \X Replacements :
                            x[1] < x[2] } }

EditLists(text) ==
    UNION { [1..n -> ValidEdits(text)] : n \in 0..MaxEdits }

DocIdle ==
    /\ docPath = <<>>
    /\ docDs = <<>>
    /\ docOrig = <<>>
    /\ docText = <<>>
    /\ docPass = 0
    /\ docEdits = <<>>

CacheIdle ==
    /\ designSystemCache = <<>>
    /\ loads = <<>>
    /\ callers = <<>>
    /\ clears = 0
    /\ reads = <<>>
    /\ envBuilder = "function"
    /\ envReadable = {}
    /\ envDesign = <<>>

RunIdle ==
    /\ cli = "packages"
    /\ argTargets = <<>>
    /\ argHelp = FALSE
    /\ argFlags = <<>>
    /\ writeMode = "write"
    /\ pc = "idle"
    /\ targets = <<>>
    /\ designSystem = <<>>
    /\ results = <<>>
    /\ fileStep = "read"
    /\ fileText = <<>>
    /\ fileNext = <<>>
    /\ disk = <<>>
    /\ ioLog = <<>>
    /\ exitCode = <<>>

LangIdle ==
    /\ lPath = <<>>
    /\ lOther = <<>>
    /\ lLang = <<>>
    /\ lOtherLang = <<>>
    /\ lSupported = <<>>

LoaderIdle ==
    /\ ldCssBase = <<>>
    /\ ldRequests = <<>>
    /\ ldAnswers = <<>>
    /\ ldState = "idle"

SummaryIdle == sCall = <<>>

PrettierIdle == pCall = <<>>

InitApply ==
    /\ aText \in Texts
    /\ aEdits \in EditLists(aText)
    /\ aOut = <<>>
    /\ aDedup = <<>>
    /\ aAfter = <<>>
    /\ aAgain = <<>>
    /\ DocIdle
    /\ CacheIdle
    /\ RunIdle
    /\ LangIdle
    /\ LoaderIdle
    /\ SummaryIdle
    /\ PrettierIdle

CallApplyTextEdits ==
    /\ aOut = <<>>
    /\ aOut' = <<ApplyRun(aText, aEdits)>>
    /\ aAfter' = <<CallerEdits(aEdits)>>
    /\ UNCHANGED <<aText, aEdits, aDedup, aAgain>>

CallDedupeEdits ==
    /\ aDedup = <<>>
    /\ aDedup' = <<dedupeEdits(aEdits)>>
    /\ UNCHANGED <<aText, aEdits, aOut, aAfter, aAgain>>

\* the caller calls applyTextEdits once more, with the same text and the
\* edits array it passed to the first call
CallApplyTextEditsAgain ==
    /\ aOut # <<>>
    /\ aAgain = <<>>
    /\ aAgain' = <<applyTextEdits(aText, aAfter[1])>>
    /\ UNCHANGED <<aText, aEdits, aOut, aDedup, aAfter>>

CallApplyOnEdits ==
    /\ CallApplyTextEdits
    /\ UNCHANGED <<docVars, cacheVars, runVars, langVars, loaderVars, summaryVars, prettierVars>>

CallDedupeOnEdits ==
    /\ CallDedupeEdits
    /\ UNCHANGED <<docVars, cacheVars, runVars, langVars, loaderVars, summaryVars, prettierVars>>

NextApply == CallApplyOnEdits \/ CallDedupeOnEdits

SpecApply == InitApply /\ [][NextApply]_vars

\* applyTextEdits on edit lists of any kind: offsets before the start or past
\* the end of the text, empty and inverted ranges
MaxAnyEdits == 2

AnyText == <<"a", "b">>

AnyEdits ==
    { TextEdit(s, e, <<"X">>, Slice(AnyText, s, e)) :
        <<s, e>> \in (-1..Len(AnyText) + 1) \X (-1..Len(AnyText) + 1) }

AnyEditLists == UNION { [1..n -> AnyEdits] : n \in 0..MaxAnyEdits }

InitApplyAny ==
    /\ aText = AnyText
    /\ aEdits \in AnyEditLists
    /\ aOut = <<>>
    /\ aDedup = <<>>
    /\ aAfter = <<>>
    /\ aAgain = <<>>
    /\ DocIdle
    /\ CacheIdle
    /\ RunIdle
    /\ LangIdle
    /\ LoaderIdle
    /\ SummaryIdle
    /\ PrettierIdle

CallApplyAgainOnEdits ==
    /\ CallApplyTextEditsAgain
    /\ UNCHANGED <<docVars, cacheVars, runVars, langVars, loaderVars, summaryVars, prettierVars>>

NextApplyAny == CallApplyOnEdits \/ CallApplyAgainOnEdits

SpecApplyAny == InitApplyAny /\ [][NextApplyAny]_vars

----------------------------------------------------------------------------
(* File paths, path.extname, toLowerCase, inferLanguageId *)

UpperCase ==
    <<"A", "B", "C", "D", "E", "F", "G", "H", "I", "J", "K", "L", "M",
      "N", "O", "P", "Q", "R", "S", "T", "U", "V", "W", "X", "Y", "Z">>

LowerCase ==
    <<"a", "b", "c", "d", "e", "f", "g", "h", "i", "j", "k", "l", "m",
      "n", "o", "p", "q", "r", "s", "t", "u", "v", "w", "x", "y", "z">>

\* a path is a sequence of characters; String.prototype.toLowerCase
LowerOf(c) ==
    IF \E i \in 1..Len(UpperCase) : UpperCase[i] = c
    THEN LowerCase[CHOOSE i \in 1..Len(UpperCase) : UpperCase[i] = c]
    ELSE c

\* an extension that is compared as written
toLowerCaseIdentity(s) == s

toLowerCase(s) == [i \in 1..Len(s) |-> LowerOf(s[i])]

\* index of the last occurrence of character c in s[1..i], 0 when there is none
RECURSIVE LastIndexOf(_, _, _)
LastIndexOf(s, c, i) ==
    IF i = 0 THEN 0
    ELSE IF s[i] = c THEN i ELSE LastIndexOf(s, c, i - 1)

\* path.extname does not look at trailing separators
RECURSIVE StripTrailingSlashes(_)
StripTrailingSlashes(p) ==
    IF Len(p) >= 1 /\ p[Len(p)] = "/"
    THEN StripTrailingSlashes(SubSeq(p, 1, Len(p) - 1))
    ELSE p

basename(p) ==
    LET q == StripTrailingSlashes(p)
    IN  SubSeq(q, LastIndexOf(q, "/", Len(q)) + 1, Len(q))

\* path.extname: from the last "." of the basename to its end; empty when
\* there is no ".", the basename starts with its only "." or is ".."
extname(p) ==
    LET b == basename(p)
        d == LastIndexOf(b, ".", Len(b))
    IN  IF d <= 1 \/ b = <<".", ".">> THEN <<>> ELSE SubSeq(b, d, Len(b))

\* a filter set that was not given the ".mts" of the dispatcher
SupportedExtensionsWithoutMts ==
    { <<".", "a", "s", "t", "r", "o">>, <<".", "c", "s", "s">>,
      <<".", "h", "t", "m", "l">>, <<".", "h", "t", "m">>, <<".", "j", "s">>,
      <<".", "j", "s", "x">>, <<".", "l", "e", "s", "s">>, <<".", "m", "d">>,
      <<".", "m", "d", "x">>, <<".", "m", "j", "s">>, <<".", "p", "c", "s", "s">>,
      <<".", "p", "o", "s", "t", "c", "s", "s">>, <<".", "s", "a", "s", "s">>,
      <<".", "s", "c", "s", "s">>, <<".", "s", "t", "y", "l">>,
      <<".", "s", "t", "y", "l", "u", "s">>, <<".", "s", "s", "s">>,
      <<".", "s", "v", "e", "l", "t", "e">>, <<".", "t", "s">>,
      <<".", "t", "s", "x">>, <<".", "v", "u", "e">> }

SUPPORTED_EXTENSIONS ==
    { <<".", "a", "s", "t", "r", "o">>,
      <<".", "c", "s", "s">>,
      <<".", "h", "t", "m", "l">>,
      <<".", "h", "t", "m">>,
      <<".", "j", "s">>,
      <<".", "j", "s", "x">>,
      <<".", "l", "e", "s", "s">>,
      <<".", "m", "d">>,
      <<".", "m", "d", "x">>,
      <<".", "m", "j", "s">>,
      <<".", "m", "t", "s">>,
      <<".", "p", "c", "s", "s">>,
      <<".", "p", "o", "s", "t", "c", "s", "s">>,
      <<".", "s", "a", "s", "s">>,
      <<".", "s", "c", "s", "s">>,
      <<".", "s", "t", "y", "l">>,
      <<".", "s", "t", "y", "l", "u", "s">>,
      <<".", "s", "s", "s">>,
      <<".", "s", "v", "e", "l", "t", "e">>,
      <<".", "t", "s">>,
      <<".", "t", "s", "x">>,
      <<".", "v", "u", "e">> }

\* the null that inferLanguageId returns for an extension outside its table
NoLanguage == "null"

\* the switch of inferLanguageId on the lower-cased extension
LanguageOfExt(ext) ==
    CASE ext \in { <<".", "c", "s", "s">>,
                     <<".", "l", "e", "s", "s">>,
                     <<".", "p", "c", "s", "s">>,
                     <<".", "p", "o", "s", "t", "c", "s", "s">>,
                     <<".", "s", "c", "s", "s">>,
                     <<".", "s", "a", "s", "s">>,
                     <<".", "s", "t", "y", "l">>,
                     <<".", "s", "t", "y", "l", "u", "s">>,
                     <<".", "s", "s", "s">> }
           -> "css"
      [] ext \in { <<".", "h", "t", "m", "l">>,
                     <<".", "h", "t", "m">>,
                     <<".", "m", "d">>,
                     <<".", "m", "d", "x">> }
           -> "html"
      [] ext \in { <<".", "j", "s">>,
                     <<".", "m", "j", "s">> }
           -> "javascript"
      [] ext \in { <<".", "j", "s", "x">> }
           -> "javascriptreact"
      [] ext \in { <<".", "t", "s">>,
                     <<".", "m", "t", "s">> }
           -> "typescript"
      [] ext \in { <<".", "t", "s", "x">> }
           -> "typescriptreact"
      [] ext \in { <<".", "v", "u", "e">> }
           -> "vue"
      [] ext \in { <<".", "s", "v", "e", "l", "t", "e">> }
           -> "svelte"
      [] ext \in { <<".", "a", "s", "t", "r", "o">> }
           -> "astro"
      [] OTHER -> NoLanguage

inferLanguageId(filePath) == LanguageOfExt(toLowerCase(extname(filePath)))

isSupportedExtension(filePath) ==
    toLowerCase(extname(filePath)) \in SUPPORTED_EXTENSIONS

----------------------------------------------------------------------------
(* The analyzer (doValidate of the language service) and the design system *)

\* Documents are single-line texts over the class characters "a" and "b";
\* canonical spellings are written with "X" and "Y".
ClassChars == {"a", "b"}

DocTexts == UNION { [1..n -> ClassChars] : n \in 0..MaxDocLen }

SuggestCanonicalClasses == "suggestCanonicalClasses"
CssConflict == "cssConflict"

\* A design system is a list of rules: every occurrence of a rule's pattern
\* in the document is reported with the rule's suggestions.  A rule with
\* inverted = TRUE reports its range with start and end exchanged, a rule with
\* an empty pattern reports zero-width ranges.
Rule(code, pattern, suggestions, inverted) ==
    [code |-> code, pattern |-> pattern, suggestions |-> suggestions,
     inverted |-> inverted]

Position(line, character) == [line |-> line, character |-> character]

Diagnostic(code, startPos, endPos, suggestions) ==
    [code |-> code, range |-> [start |-> startPos, end |-> endPos],
     suggestions |-> suggestions]

DesignSystem(rules) == [canonicalizeCandidates |-> TRUE, rules |-> rules]

RuleAX == Rule(SuggestCanonicalClasses, <<"a">>, << <<"X">> >>, FALSE)
RuleAY == Rule(SuggestCanonicalClasses, <<"a">>, << <<"Y">> >>, FALSE)
RuleBXY == Rule(SuggestCanonicalClasses, <<"b">>, << <<"X", "Y">> >>, FALSE)
RuleABY == Rule(SuggestCanonicalClasses, <<"a", "b">>, << <<"Y">>, <<"X">> >>, FALSE)
RuleBAX == Rule(SuggestCanonicalClasses, <<"b", "a">>, << <<"X">> >>, FALSE)
RuleBNone == Rule(SuggestCanonicalClasses, <<"b">>, <<>>, FALSE)
RuleBEmpty == Rule(SuggestCanonicalClasses, <<"b">>, << <<>> >>, FALSE)
RuleZeroWidth == Rule(SuggestCanonicalClasses, <<>>, << <<"X">> >>, FALSE)
RuleABInverted == Rule(SuggestCanonicalClasses, <<"a", "b">>, << <<"X">> >>, TRUE)
RuleAConflict == Rule(CssConflict, <<"a">>, << <<"Y">> >>, FALSE)
RuleXY == Rule(SuggestCanonicalClasses, <<"X">>, << <<"Y">> >>, FALSE)

DesignSystems ==
    { DesignSystem(<<>>),
      DesignSystem(<<RuleAX>>),
      DesignSystem(<<RuleAX, RuleBXY>>),
      DesignSystem(<<RuleABY, RuleBAX>>),
      DesignSystem(<<RuleAX, RuleAY>>),
      DesignSystem(<<RuleABY, RuleAX>>),
      DesignSystem(<<RuleBNone, RuleBEmpty, RuleZeroWidth, RuleABInverted>>),
      DesignSystem(<<RuleAConflict, RuleBXY>>),
      DesignSystem(<<RuleAX, RuleXY>>) }

MatchesAt(text, pattern, p) ==
    /\ p + Len(pattern) <= Len(text)
    /\ \A i \in 1..Len(pattern) : text[p + i] = pattern[i]

RuleDiagnostic(rule, p) ==
    IF rule.inverted
    THEN Diagnostic(rule.code, Position(0, p + Len(rule.pattern)),
                    Position(0, p), rule.suggestions)
    ELSE Diagnostic(rule.code, Position(0, p),
                    Position(0, p + Len(rule.pattern)), rule.suggestions)

\* doValidate(state, document, kinds): the diagnostics of the requested kinds,
\* by offset and then by rule
RECURSIVE DiagnosticsFrom(_, _, _, _, _)
DiagnosticsFrom(rules, text, kinds, p, k) ==
    IF p > Len(text) THEN <<>>
    ELSE IF k > Len(rules) THEN DiagnosticsFrom(rules, text, kinds, p + 1, 1)
    ELSE IF rules[k].code \in kinds /\ MatchesAt(text, rules[k].pattern, p)
         THEN <<RuleDiagnostic(rules[k], p)>>
                  \o DiagnosticsFrom(rules, text, kinds, p, k + 1)
         ELSE DiagnosticsFrom(rules, text, kinds, p, k + 1)

doValidate(ds, text, kinds) ==
    DiagnosticsFrom(ds.rules, text, kinds, 0, 1)

isSuggestCanonicalClasses(diagnostic) == diagnostic.code = SuggestCanonicalClasses

\* TextDocument.offsetAt on a one-line document
offsetAt(text, position) ==
    IF position.line >= 1 THEN Len(text)
    ELSE IF position.line < 0 THEN 0
    ELSE IF position.character <= 0 THEN 0
    ELSE Min(position.character, Len(text))

\* TextDocument.getText(range)
getText(text, range) ==
    Slice(text, offsetAt(text, range.start), offsetAt(text, range.end))

----------------------------------------------------------------------------
(* buildCanonicalEdits, canonicalizeDocument *)

\* the test that only looks for a first suggestion
HasSuggestionDefined(diagnostic) == Len(diagnostic.suggestions) >= 1

\* a suggestion that is undefined or the empty string is falsy
HasSuggestion(diagnostic) ==
    /\ Len(diagnostic.suggestions) >= 1
    /\ diagnostic.suggestions[1] # <<>>

RECURSIVE EditsFrom(_, _, _)
EditsFrom(text, diagnostics, i) ==
    IF i > Len(diagnostics) THEN <<>>
    ELSE LET d == diagnostics[i]
             startOffset == offsetAt(text, d.range.start)
             endOffset == offsetAt(text, d.range.end)
         IN  IF ~isSuggestCanonicalClasses(d) THEN EditsFrom(text, diagnostics, i + 1)
             ELSE IF ~HasSuggestion(d) THEN EditsFrom(text, diagnostics, i + 1)
             ELSE IF startOffset >= endOffset THEN EditsFrom(text, diagnostics, i + 1)
             ELSE <<TextEdit(startOffset, endOffset, d.suggestions[1],
                             getText(text, d.range))>>
                      \o EditsFrom(text, diagnostics, i + 1)

\* the edits as built, without the final dedupeEdits
buildCanonicalEditsWithoutDedupe(ds, text) ==
    EditsFrom(text, doValidate(ds, text, {SuggestCanonicalClasses}), 1)

buildCanonicalEdits(ds, text) ==
    dedupeEdits(EditsFrom(text,
        doValidate(ds, text, {SuggestCanonicalClasses}), 1))

\* the text canonicalizeDocument returns together with the edits it built
CanonicalizeRun(text, filePath, ds) ==
    IF inferLanguageId(filePath) = NoLanguage
    THEN [text |-> text, edits |-> <<>>]
    ELSE LET edits == buildCanonicalEdits(ds, text)
         IN  IF Len(edits) = 0
             THEN [text |-> text, edits |-> edits]
             ELSE [text |-> applyTextEdits(text, edits), edits |-> edits]

canonicalizeDocument(text, filePath, ds) ==
    CanonicalizeRun(text, filePath, ds).text

DocPaths ==
    { <<"/", "p", "/", "x", ".", "h", "t", "m", "l">>,
      <<"/", "p", "/", "x", ".", "T", "S", "X">>,
      <<"/", "p", "/", "x", ".", "p", "n", "g">> }

\* a document, its design system, and a direct call of applyTextEdits with
\* no edits or with the document's edits
InitDoc ==
    /\ docPath \in DocPaths
    /\ docDs \in DesignSystems
    /\ docOrig \in DocTexts
    /\ docText = docOrig
    /\ docPass = 0
    /\ docEdits = <<>>
    /\ aText = docOrig
    /\ aEdits \in {<<>>, buildCanonicalEdits(docDs, docOrig)}
    /\ aOut = <<>>
    /\ aDedup = <<>>
    /\ aAfter = <<>>
    /\ aAgain = <<>>
    /\ CacheIdle
    /\ RunIdle
    /\ LangIdle
    /\ LoaderIdle
    /\ SummaryIdle
    /\ PrettierIdle

\* one call of canonicalizeDocument on the current text of the document
CanonicalizePass ==
    /\ docPass < MaxPasses
    /\ LET run == CanonicalizeRun(docText, docPath, docDs)
       IN  /\ docText' = run.text
           /\ docEdits' = Append(docEdits, run.edits)
    /\ docPass' = docPass + 1
    /\ UNCHANGED <<docPath, docDs, docOrig, applyVars, cacheVars, runVars,
                   langVars, loaderVars, summaryVars, prettierVars>>

CallApplyOnDocument ==
    /\ CallApplyTextEdits
    /\ UNCHANGED <<docVars, cacheVars, runVars, langVars, loaderVars, summaryVars, prettierVars>>

NextDoc == CanonicalizePass \/ CallApplyOnDocument

SpecDoc == InitDoc /\ [][NextDoc]_vars


----------------------------------------------------------------------------
(* getDesignSystem, clearDesignSystemCache, loadTailwindDesignSystem *)

\* cssPath = null; the empty string is falsy and takes the same branches
NoCss == <<>>

RootDirs == { <<"/", "p">>, <<"/", "q">> }

CssPaths ==
    { NoCss,
      <<".", "/", "a", ".", "c", "s", "s">>,
      <<"/", "p", "/", "a", ".", "c", "s", "s">> }

\* path.isAbsolute
isAbsolute(p) == Len(p) >= 1 /\ p[1] = "/"

\* the segments of a path between its separators
RECURSIVE SplitPath(_, _)
SplitPath(p, seg) ==
    IF p = <<>> THEN <<seg>>
    ELSE IF Head(p) = "/" THEN <<seg>> \o SplitPath(Tail(p), <<>>)
         ELSE SplitPath(Tail(p), Append(seg, Head(p)))

\* path normalisation: empty and "." segments go, ".." takes the segment
\* before it away
RECURSIVE NormalizeSegments(_, _)
NormalizeSegments(segs, out) ==
    IF segs = <<>> THEN out
    ELSE LET h == Head(segs)
         IN  IF h = <<>> \/ h = <<".">>
             THEN NormalizeSegments(Tail(segs), out)
             ELSE IF h = <<".", ".">>
             THEN NormalizeSegments(Tail(segs),
                      IF out = <<>> THEN out ELSE SubSeq(out, 1, Len(out) - 1))
             ELSE NormalizeSegments(Tail(segs), Append(out, h))

RECURSIVE JoinSegments(_)
JoinSegments(segs) ==
    IF segs = <<>> THEN <<>>
    ELSE <<"/">> \o Head(segs) \o JoinSegments(Tail(segs))

\* the absolute path with the given segments
AbsolutePath(segs) ==
    LET n == NormalizeSegments(segs, <<>>)
    IN  IF n = <<>> THEN <<"/">> ELSE JoinSegments(n)

\* path.resolve(rootDir, cssPath) for an absolute rootDir: an absolute cssPath
\* stands for itself, a relative one is joined to rootDir; the result is
\* normalised
pathResolve(rootDir, cssPath) ==
    IF isAbsolute(cssPath) THEN AbsolutePath(SplitPath(cssPath, <<>>))
    ELSE AbsolutePath(SplitPath(rootDir, <<>>) \o SplitPath(cssPath, <<>>))

\* path.dirname of an absolute normalised path
dirname(p) ==
    LET segs == NormalizeSegments(SplitPath(p, <<>>), <<>>)
    IN  IF Len(segs) <= 1 THEN <<"/">>
        ELSE JoinSegments(SubSeq(segs, 1, Len(segs) - 1))

\* the default key without the root directory
DefaultKeyLiteral(rootDir) == <<"d", "e", "f", "a", "u", "l", "t">>

\* `default:${rootDir}`
DefaultKey(rootDir) == <<"d", "e", "f", "a", "u", "l", "t", ":">> \o rootDir

CacheKey(rootDir, cssPath) ==
    IF cssPath # NoCss THEN pathResolve(rootDir, cssPath) ELSE DefaultKey(rootDir)

Settled == {"fulfilled", "rejected"}

\* a cache that only answers once the cached load has settled
CacheHasSettled(key) ==
    key \in DOMAIN designSystemCache /\ loads[designSystemCache[key]].pc \in Settled

\* a cache that does not answer with a load that has failed
CacheHasNotFailed(key) ==
    key \in DOMAIN designSystemCache /\ loads[designSystemCache[key]].pc # "rejected"

\* designSystemCache.has(cacheKey)
CacheHas(key) == key \in DOMAIN designSystemCache

\* designSystemCache.set(key, load)
CacheSet(key, load) ==
    [k \in DOMAIN designSystemCache \cup {key} |->
        IF k = key THEN load ELSE designSystemCache[k]]

\* the design system of the projects in the model; a host whose builder
\* returns an object without canonicalizeCandidates yields the second one
ProjectDesign == DesignSystem(<<RuleAX, RuleBXY>>)

DesignWithoutCanonicalize ==
    [canonicalizeCandidates |-> FALSE, rules |-> <<RuleAX, RuleBXY>>]

\* the design system the builder makes for load number id: a new object
BuiltDesignSystem(id) ==
    [load |-> id, canonicalizeCandidates |-> envDesign.canonicalizeCandidates,
     rules |-> envDesign.rules]

BuilderMissing == "Tailwind CSS v4 is required. __unstable__loadDesignSystem not found."

\* getDesignSystem(rootDir, cssPath): on a miss the load is started and its
\* promise cached in the same synchronous step; the caller gets the cached
\* promise.  joined is the position of that load when the call was made.
GetDesignSystem(rootDir, cssPath) ==
    LET key == CacheKey(rootDir, cssPath)
        hit == CacheHas(key)
        id == IF hit THEN designSystemCache[key] ELSE Len(loads) + 1
    IN  /\ Len(callers) < MaxCalls
        /\ loads' = IF hit THEN loads
                    ELSE Append(loads, [rootDir |-> rootDir, cssPath |-> cssPath,
                                        key |-> key, epoch |-> clears,
                                        pc |-> "import", value |-> <<>>])
        /\ designSystemCache' = IF hit THEN designSystemCache ELSE CacheSet(key, id)
        /\ callers' = Append(callers,
                        [rootDir |-> rootDir, cssPath |-> cssPath, key |-> key,
                         epoch |-> clears, promise |-> id,
                         joined |-> IF hit THEN loads[id].pc ELSE "new",
                         state |-> "pending", value |-> <<>>])
        /\ UNCHANGED <<clears, reads, envBuilder, envReadable, envDesign>>

\* a clear that also cancels the loads in flight
ClearDesignSystemCacheCancelling ==
    /\ clears < MaxClears
    /\ designSystemCache' = <<>>
    /\ clears' = clears + 1
    /\ loads' = [id \in 1..Len(loads) |->
                    IF loads[id].pc \in Settled THEN loads[id]
                    ELSE [loads[id] EXCEPT !.pc = "rejected", !.value = <<"cancelled">>]]
    /\ UNCHANGED <<callers, reads, envBuilder, envReadable, envDesign>>

\* clearDesignSystemCache()
ClearDesignSystemCache ==
    /\ clears < MaxClears
    /\ designSystemCache' = <<>>
    /\ clears' = clears + 1
    /\ UNCHANGED <<loads, callers, reads, envBuilder, envReadable, envDesign>>

\* loadTailwindDesignSystem after `await import('tailwindcss')`: the builder
\* test, then the entry stylesheet read is issued or, without a stylesheet,
\* the builder is called with the default content
LoadImported(id) ==
    /\ id \in 1..Len(loads)
    /\ loads[id].pc = "import"
    /\ IF envBuilder # "function"
       THEN /\ loads' = [loads EXCEPT ![id].pc = "rejected",
                                      ![id].value = <<BuilderMissing>>]
            /\ reads' = reads
       ELSE IF loads[id].cssPath # NoCss
       THEN /\ loads' = [loads EXCEPT ![id].pc = "read"]
            /\ reads' = Append(reads,
                  <<id, pathResolve(loads[id].rootDir, loads[id].cssPath)>>)
       ELSE /\ loads' = [loads EXCEPT ![id].pc = "build"]
            /\ reads' = reads
    /\ UNCHANGED <<designSystemCache, callers, clears, envBuilder, envReadable, envDesign>>

\* fs.readFile of the entry stylesheet returns or throws
LoadStylesheetRead(id) ==
    /\ id \in 1..Len(loads)
    /\ loads[id].pc = "read"
    /\ IF pathResolve(loads[id].rootDir, loads[id].cssPath) \in envReadable
       THEN loads' = [loads EXCEPT ![id].pc = "build"]
       ELSE loads' = [loads EXCEPT ![id].pc = "rejected",
                                   ![id].value = <<"ENOENT">>]
    /\ UNCHANGED <<designSystemCache, callers, clears, reads, envBuilder, envReadable, envDesign>>

\* the builder returns the design system or throws
LoadBuilt(id) ==
    /\ id \in 1..Len(loads)
    /\ loads[id].pc = "build"
    /\ \E ok \in BOOLEAN :
         IF ok
         THEN loads' = [loads EXCEPT ![id].pc = "fulfilled",
                                     ![id].value = <<BuiltDesignSystem(id)>>]
         ELSE loads' = [loads EXCEPT ![id].pc = "rejected",
                                     ![id].value = <<"build failed">>]
    /\ UNCHANGED <<designSystemCache, callers, clears, reads, envBuilder, envReadable, envDesign>>

\* the await of a getDesignSystem caller resumes with the outcome of its load
CallerResumes(c) ==
    /\ c \in 1..Len(callers)
    /\ callers[c].state = "pending"
    /\ loads[callers[c].promise].pc \in Settled
    /\ callers' = [callers EXCEPT ![c].state = loads[callers[c].promise].pc,
                                  ![c].value = loads[callers[c].promise].value]
    /\ UNCHANGED <<designSystemCache, loads, clears, reads, envBuilder, envReadable, envDesign>>

\* /p/a.css exists and can be read, /q/a.css cannot
ReadableStylesheets == { <<"/", "p", "/", "a", ".", "c", "s", "s">> }

ApplyIdle ==
    /\ aText = <<>>
    /\ aEdits = <<>>
    /\ aOut = <<>>
    /\ aDedup = <<>>
    /\ aAfter = <<>>
    /\ aAgain = <<>>

InitCache ==
    /\ designSystemCache = <<>>
    /\ loads = <<>>
    /\ callers = <<>>
    /\ clears = 0
    /\ reads = <<>>
    /\ envBuilder \in {"function", "undefined"}
    /\ envReadable = ReadableStylesheets
    /\ envDesign = ProjectDesign
    /\ ApplyIdle
    /\ DocIdle
    /\ RunIdle
    /\ LangIdle
    /\ LoaderIdle
    /\ SummaryIdle
    /\ PrettierIdle

NextCache ==
    \/ \E rootDir \in RootDirs, cssPath \in CssPaths :
         GetDesignSystem(rootDir, cssPath) /\ UNCHANGED <<applyVars, docVars, runVars, langVars, loaderVars, summaryVars, prettierVars>>
    \/ ClearDesignSystemCache /\ UNCHANGED <<applyVars, docVars, runVars, langVars, loaderVars, summaryVars, prettierVars>>
    \/ \E id \in 1..Len(loads) : LoadImported(id) /\ UNCHANGED <<applyVars, docVars, runVars, langVars, loaderVars, summaryVars, prettierVars>>
    \/ \E id \in 1..Len(loads) : LoadStylesheetRead(id) /\ UNCHANGED <<applyVars, docVars, runVars, langVars, loaderVars, summaryVars, prettierVars>>
    \/ \E id \in 1..Len(loads) : LoadBuilt(id) /\ UNCHANGED <<applyVars, docVars, runVars, langVars, loaderVars, summaryVars, prettierVars>>
    \/ \E c \in 1..Len(callers) : CallerResumes(c) /\ UNCHANGED <<applyVars, docVars, runVars, langVars, loaderVars, summaryVars, prettierVars>>

SpecCache == InitCache /\ [][NextCache]_vars

----------------------------------------------------------------------------
(* The command line tool: main, resolveTargetFiles, processFile *)

FileA == <<"/", "p", "/", "a", ".", "h", "t", "m", "l">>
FileB == <<"/", "p", "/", "b", ".", "T", "S", "X">>
FileC == <<"/", "p", "/", "c", ".", "p", "n", "g">>
FileD == <<"/", "p", "/", "d", ".", "c", "s", "s">>
FileE == <<"/", "p", "/", "e", ".", "v", "u", "e">>
FileF == <<"/", "p", "/", "f", ".", "m", "d">>
FileMissing == <<"/", "p", "/", "n", ".", "t", "s">>

\* the files of the project before the run, with their contents
InitialDisk ==
    (FileA :> <<"a", "b">>) @@ (FileB :> <<"X">>) @@ (FileC :> <<"a">>)
        @@ (FileD :> <<"a">>) @@ (FileE :> <<"b">>) @@ (FileF :> <<"b", "a">>)

\* fs.readFile throws on FileD, doValidate throws on FileE, fs.writeFile
\* throws on FileF
UnreadableFiles == {FileD}
AnalyzerThrowsOn == {FileE}
UnwritableFiles == {FileF}

TargetPool == {FileA, FileB, FileC, FileD, FileE, FileF, FileMissing}

TargetLists == UNION { [1..n -> TargetPool] : n \in 0..MaxFiles }

ArgRoot == <<"/", "p">>
ArgCss == <<".", "/", "a", ".", "c", "s", "s">>

EXIT_SUCCESS == 0
EXIT_FAILURE == 1

\* the value the standalone loader returns when the builder is missing; null
\* and an object without canonicalizeCandidates are both falsy at the gate
NullDesignSystem == [load |-> 0, canonicalizeCandidates |-> FALSE, rules |-> <<>>]

FileResult(filePath, status, editCount, message) ==
    [filePath |-> filePath, status |-> status, editCount |-> editCount,
     message |-> message]

\* glob(targets, {onlyFiles: true}): the targets that are files on disk
RECURSIVE glob(_, _)
glob(patterns, files) ==
    IF patterns = <<>> THEN <<>>
    ELSE IF Head(patterns) \in DOMAIN files
         THEN <<Head(patterns)>> \o glob(Tail(patterns), files)
         ELSE glob(Tail(patterns), files)

RECURSIVE SupportedOnce(_, _, _, _)
SupportedOnce(files, i, seen, result) ==
    IF i > Len(files) THEN result
    ELSE IF ~isSupportedExtension(files[i])
         THEN SupportedOnce(files, i + 1, seen, result)
         ELSE IF files[i] \in seen
              THEN SupportedOnce(files, i + 1, seen, result)
              ELSE SupportedOnce(files, i + 1, seen \cup {files[i]},
                                 Append(result, files[i]))

\* a discovery that keeps every file the glob found
resolveTargetFilesUnfiltered(patterns, files) == glob(patterns, files)

resolveTargetFiles(patterns, files) ==
    SupportedOnce(glob(patterns, files), 1, {}, <<>>)

\* String.prototype.split('\n')
RECURSIVE SplitLines(_, _)
SplitLines(s, line) ==
    IF s = <<>> THEN <<line>>
    ELSE IF Head(s) = "\n" THEN <<line>> \o SplitLines(Tail(s), <<>>)
         ELSE SplitLines(Tail(s), Append(line, Head(s)))

\* a line past the end of an array is undefined
LineAt(lines, i) == IF i <= Len(lines) THEN <<lines[i]>> ELSE <<>>

\* a count of the lines added or removed only
countChangesLineCount(original, modified) ==
    LET originalLines == SplitLines(original, <<>>)
        modifiedLines == SplitLines(modified, <<>>)
    IN  Max(Len(originalLines), Len(modifiedLines))
            - Min(Len(originalLines), Len(modifiedLines))

countChanges(original, modified) ==
    LET originalLines == SplitLines(original, <<>>)
        modifiedLines == SplitLines(modified, <<>>)
        maxLen == Max(Len(originalLines), Len(modifiedLines))
    IN  Cardinality({ i \in 1..maxLen :
                        LineAt(originalLines, i) # LineAt(modifiedLines, i) })

RECURSIVE CountStatus(_, _)
CountStatus(rs, status) ==
    IF rs = <<>> THEN 0
    ELSE (IF Head(rs).status = status THEN 1 ELSE 0) + CountStatus(Tail(rs), status)

\* a summary that stops at the first error it meets
RECURSIVE UpToFirstError(_)
UpToFirstError(rs) ==
    IF rs = <<>> THEN <<>>
    ELSE IF Head(rs).status = "error" THEN <<Head(rs)>>
         ELSE <<Head(rs)>> \o UpToFirstError(Tail(rs))

summarizeResultsUntilError(rs) ==
    [changed |-> CountStatus(UpToFirstError(rs), "changed"),
     unchanged |-> CountStatus(UpToFirstError(rs), "unchanged"),
     skipped |-> CountStatus(UpToFirstError(rs), "skipped"),
     errors |-> CountStatus(UpToFirstError(rs), "error")]

\* a summary that counts the changed files among the errors
summarizeResultsChangedAsErrors(rs) ==
    [changed |-> CountStatus(rs, "changed"),
     unchanged |-> CountStatus(rs, "unchanged"),
     skipped |-> CountStatus(rs, "skipped"),
     errors |-> CountStatus(rs, "error") + CountStatus(rs, "changed")]

summarizeResults(rs) ==
    [changed |-> CountStatus(rs, "changed"),
     unchanged |-> CountStatus(rs, "unchanged"),
     skipped |-> CountStatus(rs, "skipped"),
     errors |-> CountStatus(rs, "error")]

\* a parser that knows --check only
WriteModeCheckOnly(check, dryRun) == IF check THEN "check" ELSE "write"

\* parseCliArgs: parsed.check || parsed['dry-run'] ? 'check' : 'write'
WriteModeOf(check, dryRun) == IF check \/ dryRun THEN "check" ELSE "write"

InitRun ==
    /\ cli \in {"packages", "standalone"}
    /\ argTargets \in TargetLists
    /\ argHelp \in BOOLEAN
    /\ argFlags \in [check : BOOLEAN, dryRun : BOOLEAN]
    /\ writeMode = WriteModeOf(argFlags.check, argFlags.dryRun)
    /\ pc = "start"
    /\ targets = <<>>
    /\ designSystem = <<>>
    /\ results = <<>>
    /\ fileStep = "read"
    /\ fileText = <<>>
    /\ fileNext = <<>>
    /\ disk = InitialDisk
    /\ ioLog = <<>>
    /\ exitCode = <<>>
    /\ designSystemCache = <<>>
    /\ loads = <<>>
    /\ callers = <<>>
    /\ clears = 0
    /\ reads = <<>>
    /\ envBuilder \in {"function", "undefined"}
    /\ envReadable = ReadableStylesheets
    /\ envDesign \in {ProjectDesign, DesignWithoutCanonicalize}
    /\ ApplyIdle
    /\ DocIdle
    /\ LangIdle
    /\ LoaderIdle
    /\ SummaryIdle
    /\ PrettierIdle

\* process.exit(code), or the end of main
Exit(where, code) ==
    /\ pc' = where
    /\ exitCode' = <<code>>

\* main up to the usage test
MainStart ==
    /\ pc = "start"
    /\ IF argHelp \/ Len(argTargets) = 0
       THEN Exit("usage", IF Len(argTargets) = 0 THEN EXIT_FAILURE ELSE EXIT_SUCCESS)
       ELSE pc' = "resolve" /\ exitCode' = exitCode
    /\ UNCHANGED <<cli, argTargets, argHelp, argFlags, writeMode, targets, designSystem,
                   results, fileStep, fileText, fileNext, disk, ioLog, cacheVars>>

\* await resolveTargetFiles(...) and the test for no matching file
MainResolve ==
    /\ pc = "resolve"
    /\ targets' = resolveTargetFiles(argTargets, disk)
    /\ IF Len(targets') = 0
       THEN Exit("noMatch", EXIT_FAILURE)
       ELSE pc' = "load" /\ exitCode' = exitCode
    /\ UNCHANGED <<cli, argTargets, argHelp, argFlags, writeMode, designSystem, results,
                   fileStep, fileText, fileNext, disk, ioLog, cacheVars>>

\* packages/cli: main calls getDesignSystem and awaits it
MainGetDesignSystem ==
    /\ pc = "load"
    /\ cli = "packages"
    /\ GetDesignSystem(ArgRoot, ArgCss)
    /\ pc' = "await"
    /\ UNCHANGED <<cli, argTargets, argHelp, argFlags, writeMode, targets, designSystem,
                   results, fileStep, fileText, fileNext, disk, ioLog, exitCode>>

\* packages/cli: the await resumes; a rejected load rejects main
MainAwaitDesignSystem ==
    /\ pc = "await"
    /\ callers[1].state # "pending"
    /\ IF callers[1].state = "rejected"
       THEN Exit("rejected", EXIT_FAILURE) /\ designSystem' = designSystem
       ELSE pc' = "gate" /\ exitCode' = exitCode /\ designSystem' = callers[1].value
    /\ UNCHANGED <<cli, argTargets, argHelp, argFlags, writeMode, targets, results,
                   fileStep, fileText, fileNext, disk, ioLog, cacheVars>>

\* src/cli.ts: main awaits its own loadTailwindDesignSystem, which returns
\* null when the builder is missing
MainLoadStandalone ==
    /\ pc = "load"
    /\ cli = "standalone"
    /\ IF envBuilder # "function"
       THEN pc' = "gate" /\ exitCode' = exitCode
            /\ designSystem' = <<NullDesignSystem>>
       ELSE IF pathResolve(ArgRoot, ArgCss) \notin envReadable
       THEN Exit("rejected", EXIT_FAILURE) /\ designSystem' = designSystem
       ELSE \E ok \in BOOLEAN :
              IF ok
              THEN pc' = "gate" /\ exitCode' = exitCode
                   /\ designSystem' = <<BuiltDesignSystem(0)>>
              ELSE Exit("rejected", EXIT_FAILURE) /\ designSystem' = designSystem
    /\ UNCHANGED <<cli, argTargets, argHelp, argFlags, writeMode, targets, results,
                   fileStep, fileText, fileNext, disk, ioLog, cacheVars>>

\* a gate that lets every design system through
CapabilityMissingNever(ds) == FALSE

\* !designSystem?.canonicalizeCandidates
CapabilityMissing(ds) == ~ds.canonicalizeCandidates

\* if (!designSystem?.canonicalizeCandidates) process.exit(EXIT_FAILURE)
MainGate ==
    /\ pc = "gate"
    /\ IF CapabilityMissing(designSystem[1])
       THEN Exit("configError", EXIT_FAILURE)
       ELSE pc' = "loop" /\ exitCode' = exitCode
    /\ UNCHANGED <<cli, argTargets, argHelp, argFlags, writeMode, targets, designSystem,
                   results, fileStep, fileText, fileNext, disk, ioLog, cacheVars>>

CurrentFile == targets[Len(results) + 1]

InFile(step) ==
    /\ pc = "loop"
    /\ Len(results) < Len(targets)
    /\ fileStep = step

\* processFile returns r: main pushes it and goes on to the next target
Push(r) ==
    /\ results' = Append(results, r)
    /\ fileStep' = "read"
    /\ fileText' = <<>>
    /\ fileNext' = <<>>

\* the catch block without the message
ErrorResultNoMessage(filePath, message) == FileResult(filePath, "error", 0, <<>>)

\* the catch block of processFile
ErrorResult(filePath, message) == FileResult(filePath, "error", 0, <<message>>)

\* processFile: fs.readFile settles and the language id is inferred (in
\* processFile of src/cli.ts, at the start of canonicalizeDocument in
\* packages/cli); src/cli.ts returns "skipped" when there is none
FileRead ==
    /\ InFile("read")
    /\ ioLog' = IF CurrentFile \in UnreadableFiles
                THEN Append(ioLog, <<"read", CurrentFile>>)
                ELSE ioLog \o << <<"read", CurrentFile>>, <<"detect", CurrentFile>> >>
    /\ IF CurrentFile \in UnreadableFiles
       THEN Push(ErrorResult(CurrentFile, "EACCES"))
       ELSE IF cli = "standalone" /\ inferLanguageId(CurrentFile) = NoLanguage
       THEN Push(FileResult(CurrentFile, "skipped", 0, <<"Unsupported extension">>))
       ELSE /\ fileText' = <<disk[CurrentFile]>>
            /\ fileStep' = "analyze"
            /\ UNCHANGED <<results, fileNext>>
    /\ UNCHANGED <<cli, argTargets, argHelp, argFlags, writeMode, pc, targets, designSystem,
                   disk, exitCode, cacheVars>>

\* what processFile computes from the text it read: packages/cli calls
\* canonicalizeDocument and counts changed lines, src/cli.ts builds the edits,
\* applies them and counts the edits
\* a processFile that takes every analyzed file for changed
ComputedAlwaysChanged(text, filePath) ==
    IF cli = "packages"
    THEN LET run == CanonicalizeRun(text, filePath, designSystem[1])
         IN  [text |-> run.text,
              changed |-> TRUE,
              editCount |-> countChanges(text, run.text),
              applied |-> Len(run.edits) # 0]
    ELSE LET edits == buildCanonicalEdits(designSystem[1], text)
             nextText == applyTextEdits(text, edits)
         IN  [text |-> nextText,
              changed |-> TRUE,
              editCount |-> Len(edits),
              applied |-> Len(edits) # 0]

Computed(text, filePath) ==
    IF cli = "packages"
    THEN LET run == CanonicalizeRun(text, filePath, designSystem[1])
         IN  [text |-> run.text,
              changed |-> run.text # text,
              editCount |-> countChanges(text, run.text),
              applied |-> Len(run.edits) # 0]
    ELSE LET edits == buildCanonicalEdits(designSystem[1], text)
             nextText == applyTextEdits(text, edits)
         IN  [text |-> nextText,
              changed |-> Len(edits) # 0 /\ nextText # text,
              editCount |-> Len(edits),
              applied |-> Len(edits) # 0]

\* the analyzer is reached unless canonicalizeDocument returns early
AnalyzerCalled(filePath) ==
    cli = "standalone" \/ inferLanguageId(filePath) # NoLanguage

\* the steps FileAnalyze takes on a file: doValidate settles, the edits are
\* built from its diagnostics, and applyTextEdits is called when there are any
AnalyzeSteps(filePath, c) ==
    IF ~AnalyzerCalled(filePath) THEN <<>>
    ELSE IF filePath \in AnalyzerThrowsOn THEN << <<"analyze", filePath>> >>
    ELSE << <<"analyze", filePath>>, <<"build", filePath>> >>
             \o (IF c.applied THEN << <<"apply", filePath>> >> ELSE <<>>)

\* processFile: the analysis settles, the result is compared with the text
FileAnalyze ==
    /\ InFile("analyze")
    /\ ioLog' = ioLog \o AnalyzeSteps(CurrentFile, Computed(fileText[1], CurrentFile))
    /\ IF AnalyzerCalled(CurrentFile) /\ CurrentFile \in AnalyzerThrowsOn
       THEN Push(ErrorResult(CurrentFile, "analyzer failed"))
       ELSE LET c == Computed(fileText[1], CurrentFile)
            IN  IF ~c.changed
                THEN Push(FileResult(CurrentFile, "unchanged", 0, <<>>))
                ELSE IF writeMode = "write"
                THEN /\ fileNext' = <<c>>
                     /\ fileStep' = "write"
                     /\ UNCHANGED <<results, fileText>>
                ELSE Push(FileResult(CurrentFile, "changed", c.editCount, <<>>))
    /\ UNCHANGED <<cli, argTargets, argHelp, argFlags, writeMode, pc, targets, designSystem,
                   disk, exitCode, cacheVars>>

\* a write that empties the file and stores nothing
writeFileTruncating(files, filePath, data) == [files EXCEPT ![filePath] = <<>>]

\* fs.writeFile(filePath, nextText, 'utf8') that succeeds
writeFile(files, filePath, data) == [files EXCEPT ![filePath] = data]

\* processFile: fs.writeFile settles
FileWrite ==
    /\ InFile("write")
    /\ ioLog' = Append(ioLog, <<"write", CurrentFile>>)
    /\ IF CurrentFile \in UnwritableFiles
       THEN /\ Push(ErrorResult(CurrentFile, "EROFS"))
            /\ disk' = disk
       ELSE /\ Push(FileResult(CurrentFile, "changed", fileNext[1].editCount, <<>>))
            /\ disk' = writeFile(disk, CurrentFile, fileNext[1].text)
    /\ UNCHANGED <<cli, argTargets, argHelp, argFlags, writeMode, pc, targets, designSystem,
                   exitCode, cacheVars>>

\* after the loop: the summary, and exit 1 when a file failed
MainReport ==
    /\ pc = "loop"
    /\ Len(results) = Len(targets)
    /\ Exit("done", IF summarizeResults(results).errors > 0
                    THEN EXIT_FAILURE ELSE EXIT_SUCCESS)
    /\ UNCHANGED <<cli, argTargets, argHelp, argFlags, writeMode, targets, designSystem,
                   results, fileStep, fileText, fileNext, disk, ioLog, cacheVars>>

NextRun ==
    \/ MainStart /\ UNCHANGED <<applyVars, docVars, langVars, loaderVars, summaryVars, prettierVars>>
    \/ MainResolve /\ UNCHANGED <<applyVars, docVars, langVars, loaderVars, summaryVars, prettierVars>>
    \/ MainGetDesignSystem /\ UNCHANGED <<applyVars, docVars, langVars, loaderVars, summaryVars, prettierVars>>
    \/ \E id \in 1..Len(loads) :
         LoadImported(id) /\ UNCHANGED <<applyVars, docVars, runVars, langVars, loaderVars, summaryVars, prettierVars>>
    \/ \E id \in 1..Len(loads) :
         LoadStylesheetRead(id) /\ UNCHANGED <<applyVars, docVars, runVars, langVars, loaderVars, summaryVars, prettierVars>>
    \/ \E id \in 1..Len(loads) :
         LoadBuilt(id) /\ UNCHANGED <<applyVars, docVars, runVars, langVars, loaderVars, summaryVars, prettierVars>>
    \/ \E c \in 1..Len(callers) :
         CallerResumes(c) /\ UNCHANGED <<applyVars, docVars, runVars, langVars, loaderVars, summaryVars, prettierVars>>
    \/ MainAwaitDesignSystem /\ UNCHANGED <<applyVars, docVars, langVars, loaderVars, summaryVars, prettierVars>>
    \/ MainLoadStandalone /\ UNCHANGED <<applyVars, docVars, langVars, loaderVars, summaryVars, prettierVars>>
    \/ MainGate /\ UNCHANGED <<applyVars, docVars, langVars, loaderVars, summaryVars, prettierVars>>
    \/ FileRead /\ UNCHANGED <<applyVars, docVars, langVars, loaderVars, summaryVars, prettierVars>>
    \/ FileAnalyze /\ UNCHANGED <<applyVars, docVars, langVars, loaderVars, summaryVars, prettierVars>>
    \/ FileWrite /\ UNCHANGED <<applyVars, docVars, langVars, loaderVars, summaryVars, prettierVars>>
    \/ MainReport /\ UNCHANGED <<applyVars, docVars, langVars, loaderVars, summaryVars, prettierVars>>

SpecRun == InitRun /\ [][NextRun]_vars

----------------------------------------------------------------------------
(* inferLanguageId and isSupportedExtension on file paths *)

\* a file path is made of a directory, the name up to the final extension and
\* the final extension (empty for a name without one)
LangDirs == { <<>>, <<"/", "p", ".", "d", "/">> }

LangStems == { <<"x">>, <<".", "x">>, <<"a", ".", "t", "s">> }

LangExts ==
    { <<".", "a", "s", "t", "r", "o">>,
      <<".", "c", "s", "s">>,
      <<".", "h", "t", "m", "l">>,
      <<".", "h", "t", "m">>,
      <<".", "j", "s">>,
      <<".", "j", "s", "x">>,
      <<".", "l", "e", "s", "s">>,
      <<".", "m", "d">>,
      <<".", "m", "d", "x">>,
      <<".", "m", "j", "s">>,
      <<".", "m", "t", "s">>,
      <<".", "p", "c", "s", "s">>,
      <<".", "p", "o", "s", "t", "c", "s", "s">>,
      <<".", "s", "a", "s", "s">>,
      <<".", "s", "c", "s", "s">>,
      <<".", "s", "t", "y", "l">>,
      <<".", "s", "t", "y", "l", "u", "s">>,
      <<".", "s", "s", "s">>,
      <<".", "s", "v", "e", "l", "t", "e">>,
      <<".", "t", "s">>,
      <<".", "t", "s", "x">>,
      <<".", "v", "u", "e">>,
      <<".", "T", "S", "X">>,
      <<".", "H", "t", "m", "l">>,
      <<".", "C", "S", "S">>,
      <<".", "M", "t", "s">>,
      <<".", "V", "U", "E">>,
      <<".", "p", "n", "g">>,
      <<".", "P", "N", "G">>,
      <<".", "t", "x", "t">>,
      <<".", "c", "t", "s">>,
      <<".", "c", "j", "s">>,
      <<".", "h", "t", "m", "l", "x">>,
      <<".", "c">>,
      <<".">>,
      <<>> }

\* "a.ts" without a further extension would have the final extension ".ts"
LangInputs ==
    { input \in [dir : LangDirs, stem : LangStems, ext : LangExts] :
        ~(input.stem = <<"a", ".", "t", "s">> /\ input.ext = <<>>) }

LangOthers == [dir : {<<>>}, stem : {<<"y">>}, ext : LangExts]

PathOf(input) == input.dir \o input.stem \o input.ext

InitLang ==
    /\ lPath \in LangInputs
    /\ lOther \in LangOthers
    /\ lLang = <<>>
    /\ lOtherLang = <<>>
    /\ lSupported = <<>>
    /\ ApplyIdle
    /\ DocIdle
    /\ CacheIdle
    /\ RunIdle
    /\ LoaderIdle
    /\ SummaryIdle
    /\ PrettierIdle

CallInferLanguageId ==
    /\ lLang = <<>>
    /\ lLang' = <<inferLanguageId(PathOf(lPath))>>
    /\ UNCHANGED <<lPath, lOther, lOtherLang, lSupported>>

CallInferLanguageIdOther ==
    /\ lOtherLang = <<>>
    /\ lOtherLang' = <<inferLanguageId(PathOf(lOther))>>
    /\ UNCHANGED <<lPath, lOther, lLang, lSupported>>

CallIsSupportedExtension ==
    /\ lSupported = <<>>
    /\ lSupported' = <<isSupportedExtension(PathOf(lPath))>>
    /\ UNCHANGED <<lPath, lOther, lLang, lOtherLang>>

NextLang ==
    \/ CallInferLanguageId
          /\ UNCHANGED <<applyVars, docVars, cacheVars, runVars, loaderVars, summaryVars, prettierVars>>
    \/ CallInferLanguageIdOther
          /\ UNCHANGED <<applyVars, docVars, cacheVars, runVars, loaderVars, summaryVars, prettierVars>>
    \/ CallIsSupportedExtension
          /\ UNCHANGED <<applyVars, docVars, cacheVars, runVars, loaderVars, summaryVars, prettierVars>>

SpecLang == InitLang /\ [][NextLang]_vars

----------------------------------------------------------------------------
(* The callbacks loadTailwindDesignSystem gives to the builder, and the      *)
(* resolution of the identifiers they are called with                        *)

MaxImports == 2

\* the project: /p with an entry stylesheet directory /p and a directory /p/s
BaseP == <<"/", "p">>
BasePS == <<"/", "p", "/", "s">>

\* the regular files of the project
ExistingFiles ==
    { <<"/", "p", "/", "x", ".", "c", "s", "s">>,
      <<"/", "p", "/", "p", "l", "u", "g", ".", "j", "s">>,
      <<"/", "p", "/", "n", "o", "d", "e", "_", "m", "o", "d", "u", "l", "e", "s", "/", "p", "k", "g", "/", "i", "n", "d", "e", "x", ".", "j", "s">>,
      <<"/", "p", "/", "n", "o", "d", "e", "_", "m", "o", "d", "u", "l", "e", "s", "/", "b", "a", "d", "/", "i", "n", "d", "e", "x", ".", "j", "s">>,
      <<"/", "p", "/", "n", "o", "d", "e", "_", "m", "o", "d", "u", "l", "e", "s", "/", "t", "a", "i", "l", "w", "i", "n", "d", "c", "s", "s", "/", "i", "n", "d", "e", "x", ".", "c", "s", "s">>,
      <<"/", "p", "/", "n", "o", "d", "e", "_", "m", "o", "d", "u", "l", "e", "s", "/", "t", "a", "i", "l", "w", "i", "n", "d", "c", "s", "s", "/", "p", "r", "e", "f", "l", "i", "g", "h", "t", ".", "c", "s", "s">>,
      <<"/", "p", "/", "n", "o", "d", "e", "_", "m", "o", "d", "u", "l", "e", "s", "/", "t", "a", "i", "l", "w", "i", "n", "d", "c", "s", "s", "/", "t", "h", "e", "m", "e", ".", "c", "s", "s">>,
      <<"/", "p", "/", "n", "o", "d", "e", "_", "m", "o", "d", "u", "l", "e", "s", "/", "t", "a", "i", "l", "w", "i", "n", "d", "c", "s", "s", "/", "u", "t", "i", "l", "i", "t", "i", "e", "s", ".", "c", "s", "s">> }

\* the packages require.resolve finds from /p and from the directories below
\* it; the stylesheets of tailwindcss are not among its exports
ResolvablePackages == { <<"p", "k", "g">>, <<"b", "a", "d">> }

\* the module files whose evaluation throws
FailingModules == { <<"/", "p", "/", "n", "o", "d", "e", "_", "m", "o", "d", "u", "l", "e", "s", "/", "b", "a", "d", "/", "i", "n", "d", "e", "x", ".", "j", "s">> }

\* resolver.resolve(id, {paths: [baseDir]}) returns a path or throws
RequireResolves(id, baseDir) == id \in ResolvablePackages

RequireResolve(id, baseDir) ==
    BaseP \o <<"/", "n", "o", "d", "e", "_", "m", "o", "d", "u", "l", "e", "s", "/">> \o id \o <<"/", "i", "n", "d", "e", "x", ".", "j", "s">>

\* path.join(baseDir, 'node_modules', id)
pathJoinNodeModules(baseDir, id) ==
    AbsolutePath(SplitPath(baseDir, <<>>) \o << <<"n", "o", "d", "e", "_", "m", "o", "d", "u", "l", "e", "s">> >>
                     \o SplitPath(id, <<>>))

\* fs.stat(filePath) succeeds and stat.isFile()
fileExists(filePath) == filePath \in ExistingFiles

\* null, and a resolved path p as <<p>>
Null == <<>>

\* a resolver that returns the node_modules path without looking for the file
resolveModulePathWithoutProbe(id, baseDir) ==
    IF isAbsolute(id) THEN <<id>>
    ELSE IF Len(id) >= 1 /\ id[1] = "."
    THEN <<pathResolve(baseDir, id)>>
    ELSE IF RequireResolves(id, baseDir)
    THEN <<RequireResolve(id, baseDir)>>
    ELSE <<pathJoinNodeModules(baseDir, id)>>

resolveModulePath(id, baseDir) ==
    IF isAbsolute(id) THEN <<id>>
    ELSE IF Len(id) >= 1 /\ id[1] = "."
    THEN <<pathResolve(baseDir, id)>>
    ELSE IF RequireResolves(id, baseDir)
    THEN <<RequireResolve(id, baseDir)>>
    ELSE IF fileExists(pathJoinNodeModules(baseDir, id))
    THEN <<pathJoinNodeModules(baseDir, id)>>
    ELSE Null

mapTailwindCssAlias(id) ==
    CASE id = <<"t", "a", "i", "l", "w", "i", "n", "d", "c", "s", "s">>
           -> <<"t", "a", "i", "l", "w", "i", "n", "d", "c", "s", "s", "/", "i", "n", "d", "e", "x", ".", "c", "s", "s">>
      [] id = <<"t", "a", "i", "l", "w", "i", "n", "d", "c", "s", "s", "/", "i", "n", "d", "e", "x">>
           -> <<"t", "a", "i", "l", "w", "i", "n", "d", "c", "s", "s", "/", "i", "n", "d", "e", "x", ".", "c", "s", "s">>
      [] id = <<"t", "a", "i", "l", "w", "i", "n", "d", "c", "s", "s", "/", "p", "r", "e", "f", "l", "i", "g", "h", "t">>
           -> <<"t", "a", "i", "l", "w", "i", "n", "d", "c", "s", "s", "/", "p", "r", "e", "f", "l", "i", "g", "h", "t", ".", "c", "s", "s">>
      [] id = <<"t", "a", "i", "l", "w", "i", "n", "d", "c", "s", "s", "/", "t", "h", "e", "m", "e">>
           -> <<"t", "a", "i", "l", "w", "i", "n", "d", "c", "s", "s", "/", "t", "h", "e", "m", "e", ".", "c", "s", "s">>
      [] id = <<"t", "a", "i", "l", "w", "i", "n", "d", "c", "s", "s", "/", "u", "t", "i", "l", "i", "t", "i", "e", "s">>
           -> <<"t", "a", "i", "l", "w", "i", "n", "d", "c", "s", "s", "/", "u", "t", "i", "l", "i", "t", "i", "e", "s", ".", "c", "s", "s">>
      [] OTHER -> id

resolveStylesheetPath(id, baseDir) ==
    resolveModulePath(mapTailwindCssAlias(id), baseDir)

\* fallbackModule(resourceType)
fallbackModule(resourceType) ==
    IF resourceType = "plugin" THEN "noopFunction" ELSE "emptyObject"

Fulfilled(resolved, base, value) ==
    [state |-> "fulfilled", resolved |-> resolved, base |-> base, value |-> value]

Rejected(resolved, reason) ==
    [state |-> "rejected", resolved |-> resolved, base |-> <<>>, value |-> reason]

\* fs.readFile(resolved, 'utf8')
ReadStylesheet(resolved) ==
    IF resolved[1] \in ExistingFiles
    THEN Fulfilled(resolved, dirname(resolved[1]), <<"content", resolved[1]>>)
    ELSE Rejected(resolved, "ENOENT")

\* jiti.import(url.href, {default: true})
ImportModule(resolved, base) ==
    IF resolved[1] \notin ExistingFiles THEN Rejected(resolved, "Cannot find module")
    ELSE IF resolved[1] \in FailingModules THEN Rejected(resolved, "module threw")
    ELSE Fulfilled(resolved, base, <<"default export", resolved[1]>>)

loadStylesheet(id, base) ==
    LET resolved == resolveStylesheetPath(id, base)
    IN  IF resolved = Null THEN Fulfilled(resolved, base, <<>>)
        ELSE ReadStylesheet(resolved)

loadModule(id, base, resourceType) ==
    LET resolved == resolveModulePath(id, base)
    IN  IF resolved = Null THEN Fulfilled(resolved, base, fallbackModule(resourceType))
        ELSE ImportModule(resolved, dirname(resolved[1]))

loadConfig(id, cssBase) ==
    LET resolved == resolveModulePath(id, cssBase)
    IN  IF resolved = Null THEN Fulfilled(resolved, <<>>, "emptyObject")
        ELSE ImportModule(resolved, <<>>)

loadPlugin(id, cssBase) ==
    LET resolved == resolveModulePath(id, cssBase)
    IN  IF resolved = Null THEN Fulfilled(resolved, <<>>, "noopFunction")
        ELSE ImportModule(resolved, <<>>)

\* a call of one of the four callbacks by the builder
Request(kind, id, base, resourceType) ==
    [kind |-> kind, id |-> id, base |-> base, resourceType |-> resourceType]

StylesheetIds ==
    { <<"/", "p", "/", "x", ".", "c", "s", "s">>,
      <<"/", "p", "/", "g", "o", "n", "e", ".", "c", "s", "s">>,
      <<".", "/", "x", ".", "c", "s", "s">>,
      <<".", ".", "/", "p", "/", "x", ".", "c", "s", "s">>,
      <<".", "/", "g", "o", "n", "e", ".", "c", "s", "s">>,
      <<"p", "k", "g">>,
      <<"n", "o", "p", "k", "g">>,
      <<"t", "a", "i", "l", "w", "i", "n", "d", "c", "s", "s">>,
      <<"t", "a", "i", "l", "w", "i", "n", "d", "c", "s", "s", "/", "i", "n", "d", "e", "x">>,
      <<"t", "a", "i", "l", "w", "i", "n", "d", "c", "s", "s", "/", "p", "r", "e", "f", "l", "i", "g", "h", "t">>,
      <<"t", "a", "i", "l", "w", "i", "n", "d", "c", "s", "s", "/", "t", "h", "e", "m", "e">>,
      <<"t", "a", "i", "l", "w", "i", "n", "d", "c", "s", "s", "/", "u", "t", "i", "l", "i", "t", "i", "e", "s">>,
      <<"t", "a", "i", "l", "w", "i", "n", "d", "c", "s", "s", "/", "i", "n", "d", "e", "x", ".", "c", "s", "s">>,
      <<"t", "a", "i", "l", "w", "i", "n", "d", "c", "s", "s", "/", "c", "o", "l", "o", "r", "s">> }

ModuleIds ==
    { <<"p", "k", "g">>,
      <<"b", "a", "d">>,
      <<"n", "o", "p", "k", "g">>,
      <<".", "/", "g", "o", "n", "e", ".", "j", "s">>,
      <<".", "/", "p", "l", "u", "g", ".", "j", "s">>,
      <<"/", "p", "/", "g", "o", "n", "e", ".", "j", "s">> }

Requests ==
    { Request("stylesheet", id, BaseP, "") : id \in StylesheetIds }
    \cup { Request("stylesheet", id, BasePS, "") :
               id \in { <<"t", "a", "i", "l", "w", "i", "n", "d", "c", "s", "s">>, <<".", "/", "x", ".", "c", "s", "s">> } }
    \cup { Request("module", id, BaseP, t) :
               id \in ModuleIds, t \in {"plugin", "config"} }
    \cup { Request("module", <<"p", "k", "g">>, BasePS, "plugin") }
    \cup { Request("config", id, <<>>, "") : id \in ModuleIds }
    \cup { Request("plugin", id, <<>>, "") : id \in ModuleIds }

RequestLists == UNION { [1..n -> Requests] : n \in 0..MaxImports }

\* the callback the builder calls for a request, and what it settles with
Callback(rq, cssBase) ==
    CASE rq.kind = "stylesheet" -> loadStylesheet(rq.id, rq.base)
      [] rq.kind = "module" -> loadModule(rq.id, rq.base, rq.resourceType)
      [] rq.kind = "config" -> loadConfig(rq.id, cssBase)
      [] rq.kind = "plugin" -> loadPlugin(rq.id, cssBase)

InitLoader ==
    /\ ldCssBase = BaseP
    /\ ldRequests \in RequestLists
    /\ ldAnswers = <<>>
    /\ ldState = "building"
    /\ ApplyIdle
    /\ DocIdle
    /\ CacheIdle
    /\ RunIdle
    /\ LangIdle
    /\ SummaryIdle
    /\ PrettierIdle

\* the builder awaits its next callback call; a callback that rejects
\* rejects the builder and with it the load
BuilderCallback ==
    /\ ldState = "building"
    /\ Len(ldAnswers) < Len(ldRequests)
    /\ LET answer == Callback(ldRequests[Len(ldAnswers) + 1], ldCssBase)
       IN  /\ ldAnswers' = Append(ldAnswers, answer)
           /\ ldState' = IF answer.state = "rejected" THEN "rejected" ELSE ldState
    /\ UNCHANGED <<ldCssBase, ldRequests>>

\* the builder returns the design system
BuilderReturns ==
    /\ ldState = "building"
    /\ Len(ldAnswers) = Len(ldRequests)
    /\ ldState' = "fulfilled"
    /\ UNCHANGED <<ldCssBase, ldRequests, ldAnswers>>

NextLoader ==
    \/ BuilderCallback /\ UNCHANGED <<applyVars, docVars, cacheVars, runVars, langVars, summaryVars, prettierVars>>
    \/ BuilderReturns /\ UNCHANGED <<applyVars, docVars, cacheVars, runVars, langVars, summaryVars, prettierVars>>

SpecLoader == InitLoader /\ [][NextLoader]_vars

----------------------------------------------------------------------------
(* summarizeResults on lists of FileResults *)

MaxResults == 3

\* type FileResultStatus
FileResultStatus == {"changed", "unchanged", "skipped", "error"}

ResultOf(i, status) ==
    FileResult(<<"/", "f", i>>, status,
               IF status = "changed" THEN 1 ELSE 0,
               IF status \in {"skipped", "error"} THEN <<"message">> ELSE <<>>)

ResultLists ==
    UNION { { [i \in 1..n |-> ResultOf(i, statuses[i])] :
                statuses \in [1..n -> FileResultStatus] } : n \in 0..MaxResults }

\* every order of the indices 1..n
Orders(n) == { o \in [1..n -> 1..n] : \A i, j \in 1..n : o[i] = o[j] => i = j }

Reorder(rs, order) == [i \in 1..Len(rs) |-> rs[order[i]]]

\* results: the argument; order: <<>> or the order of the second call;
\* summary, reordered: <<>> or <<what the call returned>>
InitSummary ==
    /\ sCall \in [results : ResultLists, order : {<<>>}, summary : {<<>>},
                   reordered : {<<>>}]
    /\ ApplyIdle
    /\ DocIdle
    /\ CacheIdle
    /\ RunIdle
    /\ LangIdle
    /\ LoaderIdle
    /\ PrettierIdle

CallSummarizeResults ==
    /\ sCall.summary = <<>>
    /\ sCall' = [sCall EXCEPT !.summary = <<summarizeResults(sCall.results)>>]

\* the same results are given in another order
CallSummarizeReordered ==
    /\ sCall.reordered = <<>>
    /\ \E order \in Orders(Len(sCall.results)) :
          sCall' = [sCall EXCEPT
                       !.order = order,
                       !.reordered = <<summarizeResults(Reorder(sCall.results, order))>>]

NextSummary ==
    \/ CallSummarizeResults
          /\ UNCHANGED <<applyVars, docVars, cacheVars, runVars, langVars, loaderVars, prettierVars>>
    \/ CallSummarizeReordered
          /\ UNCHANGED <<applyVars, docVars, cacheVars, runVars, langVars, loaderVars, prettierVars>>

SpecSummary == InitSummary /\ [][NextSummary]_vars

----------------------------------------------------------------------------
(* The Prettier plugin: the preprocess step of createPreprocessor *)

\* PARSER_EXTENSION_MAP of parsers.ts
PARSER_EXTENSION_MAP ==
    ("html" :> <<".", "h", "t", "m", "l">>)
        @@ ("vue" :> <<".", "v", "u", "e">>)
        @@ ("angular" :> <<".", "h", "t", "m", "l">>)
        @@ ("lwc" :> <<".", "h", "t", "m", "l">>)
        @@ ("babel" :> <<".", "j", "s", "x">>)
        @@ ("babel-flow" :> <<".", "j", "s", "x">>)
        @@ ("babel-ts" :> <<".", "t", "s", "x">>)
        @@ ("typescript" :> <<".", "t", "s">>)
        @@ ("flow" :> <<".", "j", "s">>)
        @@ ("acorn" :> <<".", "j", "s">>)
        @@ ("meriyah" :> <<".", "j", "s">>)
        @@ ("espree" :> <<".", "j", "s">>)
        @@ ("css" :> <<".", "c", "s", "s">>)
        @@ ("scss" :> <<".", "s", "c", "s", "s">>)
        @@ ("less" :> <<".", "l", "e", "s", "s">>)
        @@ ("astro" :> <<".", "a", "s", "t", "r", "o">>)
        @@ ("svelte" :> <<".", "s", "v", "e", "l", "t", "e">>)
        @@ ("marko" :> <<".", "m", "a", "r", "k", "o">>)
        @@ ("mdx" :> <<".", "m", "d", "x">>)
        @@ ("pug" :> <<".", "p", "u", "g">>)
        @@ ("liquid" :> <<".", "l", "i", "q", "u", "i", "d">>)
        @@ ("twig" :> <<".", "t", "w", "i", "g">>)
        @@ ("glimmer" :> <<".", "h", "b", "s">>)

\* PARSER_EXTENSION_MAP of the plugin entry
PARSER_EXTENSION_MAP_INDEX ==
    ("html" :> <<".", "h", "t", "m", "l">>)
        @@ ("vue" :> <<".", "v", "u", "e">>)
        @@ ("angular" :> <<".", "h", "t", "m", "l">>)
        @@ ("lwc" :> <<".", "h", "t", "m", "l">>)
        @@ ("babel" :> <<".", "j", "s", "x">>)
        @@ ("babel-flow" :> <<".", "j", "s", "x">>)
        @@ ("babel-ts" :> <<".", "t", "s", "x">>)
        @@ ("typescript" :> <<".", "t", "s">>)
        @@ ("flow" :> <<".", "j", "s">>)
        @@ ("acorn" :> <<".", "j", "s">>)
        @@ ("meriyah" :> <<".", "j", "s">>)
        @@ ("espree" :> <<".", "j", "s">>)
        @@ ("css" :> <<".", "c", "s", "s">>)
        @@ ("scss" :> <<".", "s", "c", "s", "s">>)
        @@ ("less" :> <<".", "l", "e", "s", "s">>)
        @@ ("astro" :> <<".", "a", "s", "t", "r", "o">>)
        @@ ("svelte" :> <<".", "s", "v", "e", "l", "t", "e">>)
        @@ ("mdx" :> <<".", "m", "d", "x">>)

\* process.cwd()
Cwd == <<"/", "p">>

\* options.filepath ?? `untitled${PARSER_EXTENSION_MAP[parserName] ?? '.txt'}`
PreprocessFilePath ==
    IF pCall.filepath # <<>> THEN pCall.filepath[1]
    ELSE LET map == IF pCall.plugin = "parsers" THEN PARSER_EXTENSION_MAP
                    ELSE PARSER_EXTENSION_MAP_INDEX
         IN  <<"u", "n", "t", "i", "t", "l", "e", "d">>
                 \o (IF pCall.parser \in DOMAIN map THEN map[pCall.parser]
                     ELSE <<".", "t", "x", "t">>)

\* parsers.ts takes the directory of the file, the plugin entry process.cwd()
ProjectRoot ==
    IF pCall.plugin = "parsers" /\ pCall.filepath # <<>>
    THEN dirname(pCall.filepath[1]) ELSE Cwd

\* a catch block that throws the error again
PreprocessCatchRethrow(text, error) == [state |-> "rejected", value |-> error]

\* catch (error) { ...; return text }
PreprocessCatch(text, error) == [state |-> "fulfilled", value |-> text]

PrettierParsers == {"html", "typescript", "glimmer", "yaml"}

PrettierFilepaths ==
    { <<>>, <<FileA>>, <<FileB>>, <<FileC>>,
      << <<"/", "q", "/", "a", ".", "h", "t", "m", "l">> >> }

PrettierTexts == { <<"a", "b">>, <<"X">>, <<>> }

PrettierStylesheets ==
    { NoCss, <<".", "/", "a", ".", "c", "s", "s">> }

\* plugin: "parsers" (parsers.ts) or "index" (the plugin entry); parser: the
\* parser name the preprocessor was created for; filepath: <<>> when
\* options.filepath is undefined; stylesheet: the stylesheet option; throws:
\* whether the analyzer throws on this document; log: the core functions
\* called so far; return: <<>> or <<the settled promise preprocess returned>>
InitPrettier ==
    /\ pCall \in [plugin : {"parsers", "index"}, parser : PrettierParsers,
                   filepath : PrettierFilepaths, stylesheet : PrettierStylesheets,
                   text : PrettierTexts, throws : BOOLEAN, step : {"start"},
                   log : {<<>>}, return : {<<>>}]
    /\ designSystemCache = <<>>
    /\ loads = <<>>
    /\ callers = <<>>
    /\ clears = 0
    /\ reads = <<>>
    /\ envBuilder \in {"function", "undefined"}
    /\ envReadable = ReadableStylesheets
    /\ envDesign = ProjectDesign
    /\ ApplyIdle
    /\ DocIdle
    /\ RunIdle
    /\ LangIdle
    /\ LoaderIdle
    /\ SummaryIdle

\* preprocess up to the first await: the language test, then getDesignSystem
PreprocessStart ==
    /\ pCall.step = "start"
    /\ IF inferLanguageId(PreprocessFilePath) = NoLanguage
       THEN /\ pCall' = [pCall EXCEPT
                            !.return = <<[state |-> "fulfilled", value |-> pCall.text]>>,
                            !.step = "done"]
            /\ UNCHANGED cacheVars
       ELSE /\ GetDesignSystem(ProjectRoot, pCall.stylesheet)
            /\ pCall' = [pCall EXCEPT !.log = Append(pCall.log, "getDesignSystem"),
                                      !.step = "await"]

\* the await of getDesignSystem resumes: canonicalizeDocument is called, or
\* the rejection is caught
PreprocessLoaded ==
    /\ pCall.step = "await"
    /\ callers[1].state # "pending"
    /\ IF callers[1].state = "rejected"
       THEN pCall' = [pCall EXCEPT
                         !.return = <<PreprocessCatch(pCall.text, callers[1].value)>>,
                         !.step = "done"]
       ELSE pCall' = [pCall EXCEPT !.log = Append(pCall.log, "canonicalizeDocument"),
                                   !.step = "canonicalize"]
    /\ UNCHANGED cacheVars

\* the await of canonicalizeDocument resumes with its text or its error
PreprocessCanonicalized ==
    /\ pCall.step = "canonicalize"
    /\ pCall' = [pCall EXCEPT
                    !.return =
                        IF pCall.throws
                        THEN <<PreprocessCatch(pCall.text, <<"analyzer failed">>)>>
                        ELSE <<[state |-> "fulfilled",
                                value |-> canonicalizeDocument(pCall.text,
                                              PreprocessFilePath, callers[1].value[1])]>>,
                    !.step = "done"]
    /\ UNCHANGED cacheVars

NextPrettier ==
    \/ PreprocessStart
          /\ UNCHANGED <<applyVars, docVars, runVars, langVars, loaderVars, summaryVars>>
    \/ \E id \in 1..Len(loads) :
         LoadImported(id)
           /\ UNCHANGED <<applyVars, docVars, runVars, langVars, loaderVars, summaryVars,
                          prettierVars>>
    \/ \E id \in 1..Len(loads) :
         LoadStylesheetRead(id)
           /\ UNCHANGED <<applyVars, docVars, runVars, langVars, loaderVars, summaryVars,
                          prettierVars>>
    \/ \E id \in 1..Len(loads) :
         LoadBuilt(id)
           /\ UNCHANGED <<applyVars, docVars, runVars, langVars, loaderVars, summaryVars,
                          prettierVars>>
    \/ \E c \in 1..Len(callers) :
         CallerResumes(c)
           /\ UNCHANGED <<applyVars, docVars, runVars, langVars, loaderVars, summaryVars,
                          prettierVars>>
    \/ PreprocessLoaded
          /\ UNCHANGED <<applyVars, docVars, runVars, langVars, loaderVars, summaryVars>>
    \/ PreprocessCanonicalized
          /\ UNCHANGED <<applyVars, docVars, runVars, langVars, loaderVars, summaryVars>>

SpecPrettier == InitPrettier /\ [][NextPrettier]_vars

----------------------------------------------------------------------------
(* Reference notions the properties are stated with *)

Overlap(e1, e2) ==
    e1.startOffset < e2.endOffset /\ e2.startOffset < e1.endOffset

PairwiseDisjoint(edits) ==
    \A i, j \in 1..Len(edits) : i < j => ~Overlap(edits[i], edits[j])

EditSet(edits) == { edits[i] : i \in 1..Len(edits) }

\* The text read left to right from offset p, every range of E replaced by
\* its replacement and every other character copied.
RECURSIVE Rebuild(_, _, _)
Rebuild(text, E, p) ==
    IF p >= Len(text) THEN <<>>
    ELSE IF \E e \in E : e.startOffset = p
         THEN LET e == CHOOSE x \in E : x.startOffset = p
              IN  e.replacement \o Rebuild(text, E, e.endOffset)
         ELSE <<text[p + 1]>> \o Rebuild(text, E, p + 1)

\* the elements of a finite set of integers in ascending order
RECURSIVE Ascending(_)
Ascending(S) ==
    IF S = {} THEN <<>>
    ELSE LET m == CHOOSE x \in S : \A y \in S : x <= y
         IN  <<m>> \o Ascending(S \ {m})

FirstOfRange(edits) ==
    { i \in 1..Len(edits) :
        \A j \in 1..(i - 1) :
            \/ edits[j].startOffset # edits[i].startOffset
            \/ edits[j].endOffset # edits[i].endOffset }

----------------------------------------------------------------------------
(* Properties of applyTextEdits and dedupeEdits *)

\* C1: for pairwise non-overlapping edits, in any input order, the result is
\* the text with every edit's range replaced by its replacement and every
\* character outside the ranges kept in place.
C1_ReplacesEveryRange ==
    (aOut # <<>> /\ PairwiseDisjoint(aEdits))
        => aOut[1].output = Rebuild(aText, EditSet(aEdits), 0)

\* two disjoint edits given left edit first, the right one changing the length
C1_Witness ==
    /\ aOut # <<>>
    /\ Len(aEdits) = 2
    /\ PairwiseDisjoint(aEdits)
    /\ aEdits[1].startOffset < aEdits[2].startOffset
    /\ aEdits[1].replacement # aEdits[2].replacement
    /\ Len(aEdits[2].replacement) # aEdits[2].endOffset - aEdits[2].startOffset
    /\ aOut[1].output = Rebuild(aText, EditSet(aEdits), 0)
    /\ aOut[1].output # aText

\* C2: for any edits with 0 <= startOffset < endOffset <= length, the edits
\* actually applied are pairwise non-overlapping input edits and the result is
\* the original text with exactly those ranges replaced.
C2_AppliedDisjoint ==
    aOut # <<>> =>
        /\ PairwiseDisjoint(aOut[1].applied)
        /\ EditSet(aOut[1].applied) \subseteq EditSet(aEdits)
        /\ aOut[1].output = Rebuild(aText, EditSet(aOut[1].applied), 0)

\* overlapping input of which some edit is applied and some edit is dropped
C2_Witness ==
    /\ aOut # <<>>
    /\ ~PairwiseDisjoint(aEdits)
    /\ Len(aOut[1].applied) >= 2
    /\ Len(aOut[1].applied) < Len(aEdits)
    /\ PairwiseDisjoint(aOut[1].applied)

\* C3: of two overlapping edits exactly one is applied, the one with the
\* larger startOffset, and the other is dropped.
C3_OverlapKeepsLargerStart ==
    (aOut # <<>> /\ Len(aEdits) = 2 /\ Overlap(aEdits[1], aEdits[2]))
        => /\ Len(aOut[1].applied) = 1
           /\ aOut[1].applied[1] \in EditSet(aEdits)
           /\ \A e \in EditSet(aEdits) :
                 e.startOffset <= aOut[1].applied[1].startOffset
           /\ aOut[1].output = Splice(aText, aOut[1].applied[1])

\* the left edit first in the input, the right one applied
C3_Witness ==
    /\ aOut # <<>>
    /\ Len(aEdits) = 2
    /\ Overlap(aEdits[1], aEdits[2])
    /\ aEdits[1].startOffset < aEdits[2].startOffset
    /\ aOut[1].applied = <<aEdits[2]>>

\* C6: dedupeEdits keeps exactly the first edit of every distinct
\* (startOffset, endOffset) pair, in input order.
C6_DedupeKeepsFirst ==
    aDedup # <<>> =>
        LET idx == Ascending(FirstOfRange(aEdits))
        IN  aDedup[1] = [k \in 1..Len(idx) |-> aEdits[idx[k]]]

\* same range twice with different replacements, and a second range that
\* starts at the same offset
C6_Witness ==
    /\ aDedup # <<>>
    /\ Len(aEdits) = 3
    /\ Len(aDedup[1]) = 2
    /\ \E i, j \in 1..3 :
          /\ i < j
          /\ aEdits[i].startOffset = aEdits[j].startOffset
          /\ aEdits[i].endOffset = aEdits[j].endOffset
          /\ aEdits[i].replacement # aEdits[j].replacement
          /\ aDedup[1][1] = aEdits[1]
    /\ aDedup[1][1].startOffset = aDedup[1][2].startOffset

----------------------------------------------------------------------------
(* Properties of canonicalizeDocument *)

\* The replacements the analyzer suggests for a text: one per occurrence of
\* a canonical-class rule that has a non-empty first suggestion and reports a
\* range with start < end.
Suggested(ds, text) ==
    { TextEdit(p, p + Len(ds.rules[k].pattern),
               ds.rules[k].suggestions[1],
               ds.rules[k].pattern) :
        <<p, k>> \in { x \in (0..Len(text)) \X (1..Len(ds.rules)) :
            LET r == ds.rules[x[2]]
            IN  /\ r.code = SuggestCanonicalClasses
                /\ ~r.inverted
                /\ Len(r.pattern) >= 1
                /\ Len(r.suggestions) >= 1
                /\ r.suggestions[1] # <<>>
                /\ x[1] + Len(r.pattern) <= Len(text)
                /\ SubSeq(text, x[1] + 1, x[1] + Len(r.pattern)) = r.pattern } }

DisjointSet(E) == \A e1, e2 \in E : e1 # e2 => ~Overlap(e1, e2)

\* the analyzer reports nothing for a canonical spelling: no pattern contains
\* a character of a suggestion
CanonicalStable(ds) ==
    \A j, k \in 1..Len(ds.rules) :
        \A s \in 1..Len(ds.rules[k].suggestions) :
            \A i \in 1..Len(ds.rules[j].pattern) :
                \A c \in 1..Len(ds.rules[k].suggestions[s]) :
                    ds.rules[j].pattern[i]
                        # ds.rules[k].suggestions[s][c]

DocAnalyzed == docPass >= 1 /\ inferLanguageId(docPath) # NoLanguage

\* C4: when the diagnostics of a document are pairwise non-overlapping and
\* the analyzer reports nothing for canonical spellings, the first pass
\* applies every suggested replacement and every later pass builds no edit
\* and returns the text of the first pass.
C4_Idempotent ==
    (/\ DocAnalyzed
     /\ CanonicalStable(docDs)
     /\ DisjointSet(Suggested(docDs, docOrig)))
        => /\ docText = Rebuild(docOrig, Suggested(docDs, docOrig), 0)
           /\ \A n \in 2..docPass : docEdits[n] = <<>>

\* two passes over a document with two touching suggestions
C4_Witness ==
    /\ DocAnalyzed
    /\ docPass = 2
    /\ CanonicalStable(docDs)
    /\ DisjointSet(Suggested(docDs, docOrig))
    /\ Cardinality(Suggested(docDs, docOrig)) >= 2
    /\ \E e1, e2 \in Suggested(docDs, docOrig) : e1.endOffset = e2.startOffset
    /\ Len(docEdits[1]) >= 2
    /\ docEdits[2] = <<>>
    /\ docText # docOrig

\* C5: when the analyzer reports no diagnostic, or none that yields an edit,
\* canonicalizeDocument returns the input text; applyTextEdits with an empty
\* edit list returns the input text.
C5_NoDiagnosticsNoChange ==
    /\ (DocAnalyzed /\ Suggested(docDs, docOrig) = {}) => docText = docOrig
    /\ (aOut # <<>> /\ aEdits = <<>>) => aOut[1].output = aText

\* diagnostics were reported and all of them were filtered out; and
\* applyTextEdits was called with no edits on a non-empty text
C5_Witness ==
    /\ DocAnalyzed
    /\ docPass = 1
    /\ Len(docOrig) >= 2
    /\ Len(doValidate(docDs, docOrig, {SuggestCanonicalClasses})) >= 3
    /\ Suggested(docDs, docOrig) = {}
    /\ docText = docOrig
    /\ aOut # <<>>
    /\ aEdits = <<>>
    /\ aOut[1].output = aText

----------------------------------------------------------------------------
(* Properties of the design system cache *)

CallerIds == 1..Len(callers)

LoadIds == 1..Len(loads)

\* two calls have no clearDesignSystemCache between them when the same
\* number of clears preceded both
SameKeyNoClear(x, y) == x.key = y.key /\ x.epoch = y.epoch

\* C7: getDesignSystem calls with the same cache key and no clear between
\* them start the load (and the entry-stylesheet read) exactly once, and every
\* such caller, also one that called before the load settled, receives the
\* outcome of that one load.
C7_LoadCoalesced ==
    /\ \A i, j \in LoadIds :
          (i # j) => ~SameKeyNoClear(loads[i], loads[j])
    /\ \A c \in CallerIds :
          /\ callers[c].promise \in LoadIds
          /\ SameKeyNoClear(callers[c], loads[callers[c].promise])
          /\ callers[c].state # "pending" =>
                /\ callers[c].state = loads[callers[c].promise].pc
                /\ callers[c].value = loads[callers[c].promise].value
    /\ \A c, d \in CallerIds :
          SameKeyNoClear(callers[c], callers[d])
              => callers[c].promise = callers[d].promise
    /\ \A m, n \in 1..Len(reads) :
          (m # n) => ~SameKeyNoClear(loads[reads[m][1]], loads[reads[n][1]])

\* the second call was made while the load was still reading the stylesheet,
\* and both callers received the design system of the one load
C7_Witness ==
    /\ Len(callers) = 2
    /\ Len(loads) = 1
    /\ Len(reads) = 1
    /\ callers[1].key = callers[2].key
    /\ callers[1].joined = "new"
    /\ callers[2].joined = "read"
    /\ callers[1].state = "fulfilled"
    /\ callers[2].state = "fulfilled"
    /\ callers[1].value = callers[2].value
    /\ callers[1].value = <<BuiltDesignSystem(1)>>
    /\ callers[1].value[1].load = 1

----------------------------------------------------------------------------
(* Properties of a run of the command line tool *)

ResultIds == 1..Len(results)

\* the canonical form of a file's original content
CanonicalText(f) ==
    Rebuild(InitialDisk[f], Suggested(ProjectDesign, InitialDisk[f]), 0)

WouldChange(f) == CanonicalText(f) # InitialDisk[f]

\* the step of processFile that throws for file f in this run, if any
FailingStep(f) ==
    IF f \in UnreadableFiles THEN "read"
    ELSE IF f \in AnalyzerThrowsOn THEN "analyze"
    ELSE IF f \in UnwritableFiles /\ WouldChange(f) /\ writeMode = "write"
         THEN "write"
         ELSE "none"

\* the status of file f in a write-mode run in which no write fails
StatusWhenWritesSucceed(f) ==
    IF f \in UnreadableFiles \/ f \in AnalyzerThrowsOn THEN "error"
    ELSE IF WouldChange(f) THEN "changed" ELSE "unchanged"

Wrote(f) == \E n \in 1..Len(ioLog) : ioLog[n] = <<"write", f>>

\* C8: a failure while reading, analyzing or writing a file gives that file,
\* and no other, an error FileResult with a message; the loop goes on, and a
\* run that started the loop ends with exactly one FileResult per target.
C8_FailureIsolated ==
    /\ Len(results) <= Len(targets)
    /\ \A i \in ResultIds :
          /\ results[i].filePath = targets[i]
          /\ results[i].status = "error" <=> FailingStep(targets[i]) # "none"
          /\ results[i].status = "error" => results[i].message # <<>>
    /\ (results # <<>> /\ exitCode # <<>>)
          => (pc = "done" /\ Len(results) = Len(targets))
    /\ pc = "done" => Len(results) = Len(targets)

\* the write of the first file failed and the second file was still changed
C8_Witness ==
    /\ pc = "done"
    /\ Len(targets) = 2
    /\ FailingStep(targets[1]) = "write"
    /\ results[1].status = "error"
    /\ results[1].message = <<"EROFS">>
    /\ results[2].status = "changed"
    /\ disk[targets[2]] = CanonicalText(targets[2])

\* C9: with --check or --dry-run no file is written during the run and every
\* file has the status of a write-mode run whose writes succeed: changed when
\* the computed text differs from the text read, unchanged otherwise.
C9_CheckModeNeverWrites ==
    /\ (pc # "idle" /\ (argFlags.check \/ argFlags.dryRun))
          => /\ disk = InitialDisk
             /\ \A f \in DOMAIN disk : ~Wrote(f)
             /\ \A i \in ResultIds :
                   results[i].status = StatusWhenWritesSucceed(targets[i])
    /\ (pc # "idle" /\ ~argFlags.check /\ ~argFlags.dryRun)
          => \A i \in ResultIds :
                targets[i] \notin UnwritableFiles
                    => results[i].status = StatusWhenWritesSucceed(targets[i])

\* a --dry-run run that reports one changed file, whose write would have
\* failed, and one unchanged file, and leaves the disk as it was
C9_Witness ==
    /\ pc = "done"
    /\ argFlags.dryRun
    /\ ~argFlags.check
    /\ Len(results) = 2
    /\ results[1].status = "changed"
    /\ targets[1] \in UnwritableFiles
    /\ results[2].status = "unchanged"
    /\ disk = InitialDisk

CapabilityUnavailable ==
    envBuilder # "function" \/ ~envDesign.canonicalizeCandidates

\* C10: when the builder is unavailable or the design system has no
\* canonicalize capability, no target file is read or written, no FileResult
\* is produced, the loop is never entered, and a run that got as far as loading
\* the design system exits with a failure.
C10_FatalGate ==
    (pc # "idle" /\ CapabilityUnavailable)
        => /\ ioLog = <<>>
           /\ results = <<>>
           /\ disk = InitialDisk
           /\ pc \notin {"loop", "done"}
           /\ exitCode # <<>>
                 => \/ pc \in {"usage", "noMatch"}
                    \/ pc \in {"rejected", "configError"}
                          /\ exitCode = <<EXIT_FAILURE>>

\* the gate stopped a run with two target files
C10_Witness ==
    /\ pc = "configError"
    /\ CapabilityUnavailable
    /\ Len(targets) = 2
    /\ exitCode = <<EXIT_FAILURE>>
    /\ results = <<>>
    /\ ioLog = <<>>

\* C11: in a run that reaches its summary, every target that is a file on disk
\* with an unsupported extension has a FileResult with status "skipped" and is
\* counted in the skipped count of the summary.
C11_UnsupportedSkipped ==
    pc = "done" =>
        \A n \in 1..Len(argTargets) :
            (argTargets[n] \in DOMAIN InitialDisk
                /\ inferLanguageId(argTargets[n]) = NoLanguage)
              => /\ \E i \in ResultIds :
                       /\ results[i].filePath = argTargets[n]
                       /\ results[i].status = "skipped"
                 /\ summarizeResults(results).skipped >= 1

\* C12: a run that reaches its summary exits with success exactly when no
\* result has status "error"; how many files are changed, unchanged or skipped
\* makes no difference.
C12_ExitReflectsErrors ==
    pc = "done" =>
        /\ exitCode \in {<<EXIT_SUCCESS>>, <<EXIT_FAILURE>>}
        /\ exitCode = <<EXIT_SUCCESS>>
              <=> (\A i \in ResultIds : results[i].status # "error")

C12_Witness ==
    /\ pc = "done"
    /\ exitCode = <<EXIT_SUCCESS>>
    /\ \E i, j \in ResultIds :
          results[i].status = "changed" /\ results[j].status = "unchanged"

----------------------------------------------------------------------------
(* Properties of inferLanguageId and isSupportedExtension *)

\* the extension a path was made with, in lower case
LowerExt(input) == [i \in 1..Len(input.ext) |-> LowerOf(input.ext[i])]

\* C13: for every file path isSupportedExtension is true exactly when
\* inferLanguageId returns a language id.
C13_FilterMatchesDispatcher ==
    (lLang # <<>> /\ lSupported # <<>>)
        => (lSupported[1] <=> lLang[1] # NoLanguage)

C13_Witness ==
    /\ lLang = <<"typescript">>
    /\ lSupported = <<TRUE>>
    /\ lPath.ext = <<".", "M", "t", "s">>

----------------------------------------------------------------------------
(* Properties of the loader callbacks and of the resolution of identifiers *)

AnswerIds == 1..Len(ldAnswers)

\* the resource of an answered request cannot be had: the identifier did not
\* resolve, the resolved file is not there, or evaluating the module throws
Unavailable(n) ==
    \/ ldAnswers[n].resolved = Null
    \/ ldAnswers[n].resolved[1] \notin ExistingFiles
    \/ ldRequests[n].kind # "stylesheet" /\ ldAnswers[n].resolved[1] \in FailingModules

\* empty content, an empty object, or a function that does nothing
FallbackValue(rq) ==
    CASE rq.kind = "stylesheet" -> <<>>
      [] rq.kind = "module" ->
           IF rq.resourceType = "plugin" THEN "noopFunction" ELSE "emptyObject"
      [] rq.kind = "config" -> "emptyObject"
      [] rq.kind = "plugin" -> "noopFunction"

\* C15: a callback asked for a stylesheet, module, config or plugin that is
\* missing or fails to evaluate answers with the fallback (empty content, an
\* empty object, a function that does nothing), and the load does not fail.
C15_ImportFailureFallsBack ==
    /\ \A n \in AnswerIds :
          Unavailable(n) => /\ ldAnswers[n].state = "fulfilled"
                            /\ ldAnswers[n].value = FallbackValue(ldRequests[n])
    /\ ldState # "rejected"

\* the five aliases of the stylesheets the framework ships
FrameworkAliases ==
    { << <<"t", "a", "i", "l", "w", "i", "n", "d", "c", "s", "s">>,
         <<"t", "a", "i", "l", "w", "i", "n", "d", "c", "s", "s", "/", "i", "n", "d", "e", "x", ".", "c", "s", "s">> >>,
      << <<"t", "a", "i", "l", "w", "i", "n", "d", "c", "s", "s", "/", "i", "n", "d", "e", "x">>,
         <<"t", "a", "i", "l", "w", "i", "n", "d", "c", "s", "s", "/", "i", "n", "d", "e", "x", ".", "c", "s", "s">> >>,
      << <<"t", "a", "i", "l", "w", "i", "n", "d", "c", "s", "s", "/", "p", "r", "e", "f", "l", "i", "g", "h", "t">>,
         <<"t", "a", "i", "l", "w", "i", "n", "d", "c", "s", "s", "/", "p", "r", "e", "f", "l", "i", "g", "h", "t", ".", "c", "s", "s">> >>,
      << <<"t", "a", "i", "l", "w", "i", "n", "d", "c", "s", "s", "/", "t", "h", "e", "m", "e">>,
         <<"t", "a", "i", "l", "w", "i", "n", "d", "c", "s", "s", "/", "t", "h", "e", "m", "e", ".", "c", "s", "s">> >>,
      << <<"t", "a", "i", "l", "w", "i", "n", "d", "c", "s", "s", "/", "u", "t", "i", "l", "i", "t", "i", "e", "s">>,
         <<"t", "a", "i", "l", "w", "i", "n", "d", "c", "s", "s", "/", "u", "t", "i", "l", "i", "t", "i", "e", "s", ".", "c", "s", "s">> >> }

Unaliased(id) ==
    IF \E a \in FrameworkAliases : a[1] = id
    THEN (CHOOSE a \in FrameworkAliases : a[1] = id)[2]
    ELSE id

StartsWith(s, prefix) ==
    Len(s) >= Len(prefix) /\ SubSeq(s, 1, Len(prefix)) = prefix

\* dir/rest, for a directory that may be the root
Under(dir, rest) == IF dir = <<"/">> THEN dir \o rest ELSE dir \o <<"/">> \o rest

\* C16: every identifier resolves to a path or to null: an absolute one to
\* itself, ./x and ../x to the path under the base directory, a bare one to
\* what package resolution finds, else to base/node_modules/<id> when that
\* file exists, else to null; a stylesheet identifier first has the five
\* framework aliases replaced.
C16_ResolutionCases ==
    \A n \in AnswerIds :
        LET rq == ldRequests[n]
            r == ldAnswers[n].resolved
            base == IF rq.kind \in {"config", "plugin"} THEN ldCssBase ELSE rq.base
            id == IF rq.kind = "stylesheet" THEN Unaliased(rq.id) ELSE rq.id
            probe == Under(base, <<"n", "o", "d", "e", "_", "m", "o", "d", "u", "l", "e", "s", "/">> \o id)
        IN  /\ r = Null \/ (Len(r) = 1 /\ StartsWith(r[1], <<"/">>))
            /\ StartsWith(id, <<"/">>) => r = <<id>>
            /\ StartsWith(id, <<".", "/">>)
                  => r = <<Under(base, SubSeq(id, 3, Len(id)))>>
            /\ StartsWith(id, <<".", ".", "/">>)
                  => r = <<Under(dirname(base), SubSeq(id, 4, Len(id)))>>
            /\ (~StartsWith(id, <<"/">>) /\ ~StartsWith(id, <<".">>))
                  => r = IF id \in ResolvablePackages
                         THEN << <<"/", "p", "/", "n", "o", "d", "e", "_", "m", "o", "d", "u", "l", "e", "s", "/">> \o id
                                   \o <<"/", "i", "n", "d", "e", "x", ".", "j", "s">> >>
                         ELSE IF probe \in ExistingFiles THEN <<probe>> ELSE Null

C16_Witness ==
    /\ Len(ldAnswers) = 2
    /\ ldRequests[1].id = <<"n", "o", "p", "k", "g">>
    /\ ldAnswers[1].resolved = Null
    /\ ldRequests[2].id = <<"t", "a", "i", "l", "w", "i", "n", "d", "c", "s", "s", "/", "t", "h", "e", "m", "e">>
    /\ ldAnswers[2].resolved
          = << <<"/", "p", "/", "n", "o", "d", "e", "_", "m", "o", "d", "u", "l", "e", "s", "/", "t", "a", "i", "l", "w", "i", "n", "d", "c", "s", "s", "/", "t", "h", "e", "m", "e", ".", "c", "s", "s">> >>

----------------------------------------------------------------------------
(* Properties of the cache keys *)

\* the absolute path of a stylesheet given as /x or as ./x under a root
StylesheetAt(rootDir, cssPath) ==
    IF StartsWith(cssPath, <<"/">>) THEN cssPath
    ELSE Under(rootDir, SubSeq(cssPath, 3, Len(cssPath)))

\* what a call with these arguments asks for: the default content for its
\* root directory, or the stylesheet at an absolute path
Asked(rootDir, cssPath) ==
    IF cssPath = NoCss
    THEN <<"default content", rootDir>>
    ELSE <<"stylesheet", StylesheetAt(rootDir, cssPath)>>

\* C17: a getDesignSystem call gets a cache entry only when it asks for what
\* the call that made the entry asked for: calls without a stylesheet share
\* only with the same root directory, calls with a stylesheet only with the
\* same resolved path, and a call without a stylesheet never shares with a
\* call that has one.
C17_EntryOnlyForItsKey ==
    /\ \A c \in CallerIds :
          LET load == loads[callers[c].promise]
              asked == Asked(callers[c].rootDir, callers[c].cssPath)
          IN  /\ asked = Asked(load.rootDir, load.cssPath)
              /\ load.key = callers[c].key
              /\ callers[c].cssPath # NoCss => callers[c].key = asked[2]
    /\ \A k \in DOMAIN designSystemCache : loads[designSystemCache[k]].key = k

C17_Witness ==
    /\ Len(callers) = 2
    /\ callers[1].cssPath = NoCss
    /\ callers[2].cssPath = NoCss
    /\ callers[1].rootDir # callers[2].rootDir
    /\ callers[1].promise # callers[2].promise
    /\ callers[1].epoch = callers[2].epoch
    /\ callers[2].state = "fulfilled"

----------------------------------------------------------------------------
(* Properties of applyTextEdits on touching edits *)

AppliedEdits == EditSet(aOut[1].applied)

\* C18 as stated: an edit whose endOffset equals the startOffset of an edit
\* applied to its right is skipped.
C18_TouchingSkipped ==
    aOut # <<>> =>
        \A e \in EditSet(aEdits) :
            (\E r \in AppliedEdits : e.endOffset = r.startOffset)
                => e \notin AppliedEdits

\* C18, amended: an edit is skipped only when an applied edit starts inside
\* its range; an edit whose endOffset equals the startOffset of the edit
\* applied to its right, with no applied edit starting inside it, is applied.
C18_TouchingApplied ==
    aOut # <<>> =>
        \A e \in EditSet(aEdits) :
            e \notin AppliedEdits
                => \E r \in AppliedEdits :
                      e.startOffset <= r.startOffset /\ r.startOffset < e.endOffset

C18_Witness ==
    /\ aOut # <<>>
    /\ Len(aEdits) = 2
    /\ aEdits[1].endOffset = aEdits[2].startOffset
    /\ aEdits[1] \in AppliedEdits
    /\ aEdits[2] \in AppliedEdits
    /\ aOut[1].output
          = aEdits[1].replacement \o aEdits[2].replacement
                \o SliceFrom(aText, aEdits[2].endOffset)

----------------------------------------------------------------------------
(* Properties of buildCanonicalEdits *)

\* the diagnostics of the document before the first pass, and the edits the
\* first pass built from them
DocDiagnostics == doValidate(docDs, docOrig, {SuggestCanonicalClasses})

DiagnosticIds == 1..Len(DocDiagnostics)

StartOf(d) == offsetAt(docOrig, d.range.start)

EndOf(d) == offsetAt(docOrig, d.range.end)

\* the edit with the first suggestion and the exact original substring
EditOf(d) ==
    TextEdit(StartOf(d), EndOf(d), d.suggestions[1],
             Slice(docOrig, StartOf(d), EndOf(d)))

\* the k-th smallest element of a set of numbers
Nth(I, k) == CHOOSE i \in I : Cardinality({ j \in I : j <= i }) = k

\* the edits built are those of the diagnostics I, one each, in their order
EditsAreOf(I) ==
    /\ Len(docEdits[1]) = Cardinality(I)
    /\ \A k \in 1..Len(docEdits[1]) :
          k <= Cardinality(I) => docEdits[1][k] = EditOf(DocDiagnostics[Nth(I, k)])

\* C19 as stated: an edit is emitted for exactly the diagnostics with at
\* least one suggestion and start < end; it carries the first suggestion and
\* the original substring, and has startOffset < endOffset.
C19_EditIffSuggestionAndRange ==
    DocAnalyzed =>
        /\ EditsAreOf({ i \in DiagnosticIds :
                          /\ Len(DocDiagnostics[i].suggestions) >= 1
                          /\ StartOf(DocDiagnostics[i]) < EndOf(DocDiagnostics[i]) })
        /\ \A k \in 1..Len(docEdits[1]) :
              docEdits[1][k].startOffset < docEdits[1][k].endOffset

\* a first suggestion that is not the empty string, and start < end
Usable(d) ==
    /\ Len(d.suggestions) >= 1
    /\ d.suggestions[1] # <<>>
    /\ StartOf(d) < EndOf(d)

\* C19, amended: an edit is emitted for exactly the diagnostics whose first
\* suggestion is present and not empty, whose range has start < end, and
\* whose range no earlier such diagnostic has; it carries the first
\* suggestion and the original substring, and has startOffset < endOffset.
C19_EditIffUsableFirstOfRange ==
    DocAnalyzed =>
        /\ EditsAreOf({ i \in DiagnosticIds :
                          /\ Usable(DocDiagnostics[i])
                          /\ \A j \in 1..(i - 1) :
                                Usable(DocDiagnostics[j])
                                  => \/ StartOf(DocDiagnostics[j]) # StartOf(DocDiagnostics[i])
                                     \/ EndOf(DocDiagnostics[j]) # EndOf(DocDiagnostics[i]) })
        /\ \A k \in 1..Len(docEdits[1]) :
              docEdits[1][k].startOffset < docEdits[1][k].endOffset

C19_Witness ==
    /\ DocAnalyzed
    /\ Len(docEdits[1]) >= 2
    /\ Len(DocDiagnostics) > Len(docEdits[1])
    /\ \E i \in DiagnosticIds, k \in 1..Len(docEdits[1]) :
          /\ Usable(DocDiagnostics[i])
          /\ docEdits[1][k].startOffset = StartOf(DocDiagnostics[i])
          /\ docEdits[1][k].endOffset = EndOf(DocDiagnostics[i])
          /\ docEdits[1][k].replacement # DocDiagnostics[i].suggestions[1]

----------------------------------------------------------------------------
(* Properties of the order of the steps on one file *)

StepRank(step) ==
    CASE step = "read" -> 1
      [] step = "detect" -> 2
      [] step = "analyze" -> 3
      [] step = "build" -> 4
      [] step = "apply" -> 5
      [] step = "write" -> 6

LogIds == 1..Len(ioLog)

\* C20: the steps on one file are taken in the order read, detect, analyze,
\* build, apply, write, each at most once and none before the one it follows;
\* a file is written only in write mode and only when the text computed for
\* it differs from the text read.
C20_StepsInOrder ==
    /\ \A m, n \in LogIds :
          (m < n /\ ioLog[m][2] = ioLog[n][2])
              => StepRank(ioLog[m][1]) < StepRank(ioLog[n][1])
    /\ \A n \in LogIds :
          StepRank(ioLog[n][1]) > 1
              => \E m \in 1..(n - 1) :
                    /\ ioLog[m][2] = ioLog[n][2]
                    /\ StepRank(ioLog[m][1]) = StepRank(ioLog[n][1]) - 1
    /\ pc # "idle" =>
          \A f \in DOMAIN disk :
              IF Wrote(f)
              THEN /\ writeMode = "write"
                   /\ ~argFlags.check /\ ~argFlags.dryRun
                   /\ WouldChange(f)
                   /\ disk[f] \in {InitialDisk[f], CanonicalText(f)}
                   /\ disk[f] = InitialDisk[f] => f \in UnwritableFiles
              ELSE disk[f] = InitialDisk[f]

C20_Witness ==
    /\ pc = "done"
    /\ Len(results) = 2
    /\ \E f \in DOMAIN disk :
          /\ Wrote(f)
          /\ disk[f] # InitialDisk[f]
          /\ \E n \in LogIds : ioLog[n] = <<"apply", f>>
    /\ \E g \in DOMAIN disk :
          /\ ~Wrote(g)
          /\ \E n \in LogIds : ioLog[n] = <<"build", g>>

----------------------------------------------------------------------------
(* The files on disk during a run *)

Started(f) == \E n \in 1..Len(ioLog) : ioLog[n] = <<"read", f>>

ChangedResult(f) ==
    \E i \in ResultIds : results[i].filePath = f /\ results[i].status = "changed"

EndsWith(s, suffix) ==
    /\ Len(suffix) <= Len(s)
    /\ SubSeq(s, Len(s) - Len(suffix) + 1, Len(s)) = suffix

\* the file name ends with an extension of the supported table, in any case
InTable(f) == \E e \in SUPPORTED_EXTENSIONS : EndsWith(toLowerCase(f), e)

\* the files of the model whose extension is in the table
FilesInTable == { f \in TargetPool : InTable(f) }

\* C22: during a run no file whose extension is outside the supported table
\* is read or written: discovery keeps no such file among the targets, so
\* processFile never gets one and its content stays as it was.
C22_UnsupportedNeverOpened ==
    /\ \A n \in 1..Len(ioLog) : ioLog[n][2] \in FilesInTable
    /\ \A i \in 1..Len(targets) : targets[i] \in FilesInTable
    /\ \A i \in ResultIds : results[i].filePath \in FilesInTable
    /\ pc # "idle" =>
          \A f \in DOMAIN InitialDisk \ FilesInTable : disk[f] = InitialDisk[f]

\* a finished run that was given an unsupported file and a supported one:
\* only the supported one was read
C22_Witness ==
    /\ pc = "done"
    /\ \E n \in 1..Len(argTargets) :
          argTargets[n] \in DOMAIN InitialDisk \ FilesInTable
    /\ Len(targets) = 1
    /\ Started(targets[1])
    /\ \A f \in DOMAIN InitialDisk \ FilesInTable : ~Started(f) /\ ~Wrote(f)
----------------------------------------------------------------------------
(* Properties of summarizeResults *)

HowMany(rs, status) == Cardinality({ i \in 1..Len(rs) : rs[i].status = status })

\* C23: summarizeResults gives the same four counts for the same FileResults
\* in any order, each count is the number of results with that status, and
\* the four counts add up to the number of FileResults.
C23_OrderIndependentSum ==
    sCall # <<>> =>
        /\ (sCall.summary # <<>> /\ sCall.reordered # <<>>)
              => sCall.reordered = sCall.summary
        /\ sCall.summary # <<>> =>
              LET c == sCall.summary[1]
              IN  /\ c.changed = HowMany(sCall.results, "changed")
                  /\ c.unchanged = HowMany(sCall.results, "unchanged")
                  /\ c.skipped = HowMany(sCall.results, "skipped")
                  /\ c.errors = HowMany(sCall.results, "error")
                  /\ c.changed + c.unchanged + c.skipped + c.errors
                        = Len(sCall.results)
        /\ sCall.reordered # <<>> =>
              LET c == sCall.reordered[1]
              IN  c.changed + c.unchanged + c.skipped + c.errors = Len(sCall.results)

\* three results with three different statuses were summarized in their
\* order and in the reverse order
C23_Witness ==
    /\ sCall # <<>>
    /\ Len(sCall.results) = 3
    /\ sCall.results[1].status = "error"
    /\ sCall.results[2].status = "changed"
    /\ sCall.results[3].status = "skipped"
    /\ sCall.order = <<3, 2, 1>>
    /\ sCall.summary
          = <<[changed |-> 1, unchanged |-> 0, skipped |-> 1, errors |-> 1]>>
    /\ sCall.reordered = sCall.summary
----------------------------------------------------------------------------
(* applyTextEdits as a function *)

IsText(t) == DOMAIN t = 1..Len(t) /\ \A i \in 1..Len(t) : t[i] \in STRING

----------------------------------------------------------------------------
(* Properties of the Prettier preprocess step *)

LoadFailed == \E id \in 1..Len(loads) : loads[id].pc = "rejected"

AnalyzerFailed == pCall.throws /\ pCall.step = "done" /\ Len(pCall.log) = 2

\* C25: the promise preprocess returns is never rejected; when the design
\* system load or the canonicalization failed it holds the original text; for
\* a file without a supported language it holds the original text and neither
\* getDesignSystem nor canonicalizeDocument was called.
C25_PreprocessNeverThrows ==
    pCall # <<>> =>
        /\ pCall.return # <<>> =>
              /\ pCall.return[1].state = "fulfilled"
              /\ (LoadFailed \/ AnalyzerFailed) => pCall.return[1].value = pCall.text
        /\ ~InTable(PreprocessFilePath) =>
              /\ pCall.log = <<>>
              /\ loads = <<>>
              /\ callers = <<>>
              /\ pCall.return # <<>> => pCall.return[1].value = pCall.text

\* the design system could not be loaded for a document that has a
\* canonical form other than itself, and preprocess returned the document
C25_Witness ==
    /\ pCall # <<>>
    /\ pCall.step = "done"
    /\ LoadFailed
    /\ pCall.log = <<"getDesignSystem">>
    /\ pCall.text = <<"a", "b">>
    /\ canonicalizeDocument(pCall.text, PreprocessFilePath, ProjectDesign) # pCall.text
    /\ pCall.return = <<[state |-> "fulfilled", value |-> pCall.text]>>

----------------------------------------------------------------------------
(* Failed loads and clearDesignSystemCache *)

\* C26: a load that failed stays in the cache until clearDesignSystemCache is
\* called: a getDesignSystem call that finds the failed load under its key
\* starts no new load and fails with the error of that load.
C26_FailureStaysCached ==
    /\ \A id \in LoadIds :
          (loads[id].pc = "rejected" /\ loads[id].epoch = clears)
              => /\ loads[id].key \in DOMAIN designSystemCache
                 /\ designSystemCache[loads[id].key] = id
    /\ \A c \in CallerIds :
          callers[c].joined = "rejected"
              => LET load == loads[callers[c].promise]
                 IN  /\ load.pc = "rejected"
                     /\ SameKeyNoClear(callers[c], load)
                     /\ \E d \in 1..(c - 1) :
                           callers[d].promise = callers[c].promise
                     /\ callers[c].state # "pending"
                           => /\ callers[c].state = "rejected"
                              /\ callers[c].value = load.value

\* the entry stylesheet could not be read; a call made after that failure got
\* the same error and no second load or read was started
C26_Witness ==
    /\ Len(callers) = 2
    /\ Len(loads) = 1
    /\ Len(reads) = 1
    /\ clears = 0
    /\ loads[1].pc = "rejected"
    /\ loads[1].value = <<"ENOENT">>
    /\ callers[2].joined = "rejected"
    /\ callers[1].state = "rejected"
    /\ callers[2].state = "rejected"
    /\ callers[2].value = <<"ENOENT">>

InFlight(id) == loads[id].pc \in {"import", "read", "build"}

\* every caller holds the load that was cached for its key when it called,
\* and a settled caller has the outcome of that load
HoldsItsLoad ==
    \A c \in CallerIds :
        LET load == loads[callers[c].promise]
        IN  /\ load.key = callers[c].key
            /\ load.epoch = callers[c].epoch
            /\ callers[c].state # "pending"
                  => /\ callers[c].state = load.pc
                     /\ callers[c].value = load.value

\* the first call for a key after a clear starts a load of its own
NewLoadAfterClear ==
    \A c \in CallerIds :
        (\A d \in 1..(c - 1) : ~SameKeyNoClear(callers[d], callers[c]))
            => /\ callers[c].joined = "new"
               /\ \A d \in 1..(c - 1) : callers[d].promise # callers[c].promise

\* a step of clearDesignSystemCache leaves every load and every caller alone
ClearKeepsLoads ==
    clears' # clears
        => /\ designSystemCache' = <<>>
           /\ loads' = loads
           /\ callers' = callers

\* C27: clearDesignSystemCache empties the cache and cancels no load: the
\* loads in flight and the callers waiting for them are as before, a caller
\* receives the outcome of the load it obtained, and the first call for a key
\* after the clear starts a new load, also when the old one is in flight.
C27_ClearDoesNotCancel ==
    [](HoldsItsLoad /\ NewLoadAfterClear) /\ [][ClearKeepsLoads]_vars

\* after a clear two loads of the same key are in flight at once, each with
\* its own caller waiting
C27_Witness ==
    /\ clears = 1
    /\ Len(loads) = 2
    /\ Len(callers) = 2
    /\ loads[1].key = loads[2].key
    /\ loads[1].epoch = 0
    /\ loads[2].epoch = 1
    /\ InFlight(1)
    /\ InFlight(2)
    /\ callers[1].promise = 1
    /\ callers[2].promise = 2
    /\ callers[2].joined = "new"
----------------------------------------------------------------------------
(* Skipped edits and edits with the same start *)

LargestStart == CHOOSE m \in { aEdits[i].startOffset : i \in 1..Len(aEdits) } :
                    \A i \in 1..Len(aEdits) : aEdits[i].startOffset <= m

\* the first edit, in input order, that starts at offset p
FirstAt(p) ==
    aEdits[CHOOSE i \in 1..Len(aEdits) :
              /\ aEdits[i].startOffset = p
              /\ \A j \in 1..(i - 1) : aEdits[j].startOffset # p]

\* C28: for edits with startOffset < endOffset, every edit that is not
\* applied overlaps an edit that is, and the edit with the largest
\* startOffset (the first such edit of the input) is applied, before any other.
C28_SkippedOverlapsApplied ==
    aOut # <<>> =>
        /\ \A e \in EditSet(aEdits) :
              e \notin AppliedEdits => \E r \in AppliedEdits : Overlap(e, r)
        /\ aEdits # <<>> =>
              /\ aOut[1].applied # <<>>
              /\ aOut[1].applied[1] = FirstAt(LargestStart)

\* three edits, each overlapping or touching the next: the middle one is
\* skipped, and the left one, which does not overlap the right one, is applied
C28_Witness ==
    /\ aOut # <<>>
    /\ Len(aEdits) = 3
    /\ aEdits[1].endOffset = aEdits[3].startOffset
    /\ Overlap(aEdits[1], aEdits[2])
    /\ Overlap(aEdits[2], aEdits[3])
    /\ aEdits[2].startOffset < aEdits[3].startOffset
    /\ aEdits[2] \notin AppliedEdits
    /\ aOut[1].applied = <<aEdits[3], aEdits[1]>>

Starts == { aEdits[i].startOffset : i \in 1..Len(aEdits) }

\* the positions, in the list of applied edits, of the edits that start at p
AppliedAt(p) ==
    { k \in 1..Len(aOut[1].applied) : aOut[1].applied[k].startOffset = p }

\* the start of the edit applied nearest to the right of offset p, if any
RightOf(p) ==
    LET right == { r.startOffset : r \in { x \in AppliedEdits : x.startOffset > p } }
    IN  IF right = {} THEN <<>>
        ELSE <<CHOOSE m \in right : \A n \in right : m <= n>>

\* the input edits that start at p and end at or before the start of the
\* edit applied to their right
Fitting(p) ==
    { i \in 1..Len(aEdits) :
        /\ aEdits[i].startOffset = p
        /\ RightOf(p) # <<>> => aEdits[i].endOffset <= RightOf(p)[1] }

\* C29: of the edits that share a startOffset at most one is applied: the
\* first in input order whose endOffset does not exceed the start of the edit
\* applied to its right; none when every one of them exceeds it.
C29_SameStartFirstFitting ==
    aOut # <<>> =>
        \A p \in Starts :
            /\ Cardinality(AppliedAt(p)) <= 1
            /\ Fitting(p) = {} <=> AppliedAt(p) = {}
            /\ Fitting(p) # {} =>
                  \A k \in AppliedAt(p) :
                      aOut[1].applied[k]
                          = aEdits[CHOOSE i \in Fitting(p) : \A j \in Fitting(p) : i <= j]

\* two edits with the same start: the first reaches past the start of the
\* edit applied to the right and is skipped, the second fits and is applied
C29_Witness ==
    /\ aOut # <<>>
    /\ Len(aEdits) = 3
    /\ aEdits[1].startOffset = aEdits[2].startOffset
    /\ aEdits[3].startOffset > aEdits[1].startOffset
    /\ aEdits[1].endOffset > aEdits[3].startOffset
    /\ aEdits[2].endOffset <= aEdits[3].startOffset
    /\ aOut[1].applied = <<aEdits[3], aEdits[2]>>
----------------------------------------------------------------------------
(* The edit count of a FileResult *)

\* texts of several lines
LineTexts == UNION { [1..n -> {"a", "b", "\n"}] : n \in 0..MaxDocLen }

\* countChanges is at least 1 for any two texts that differ
CountsEveryDifference ==
    \A x, y \in LineTexts : x # y => countChanges(x, y) >= 1

\* C30: a FileResult with status unchanged, skipped or error has editCount
\* 0, and a FileResult with status changed has editCount >= 1 (the edit count
\* of packages/cli, a count of differing lines, is at least 1 whenever the
\* two texts differ).
C30_EditCountMatchesStatus ==
    /\ \A i \in ResultIds :
          /\ results[i].status \in FileResultStatus
          /\ results[i].status \in {"unchanged", "skipped", "error"}
                => results[i].editCount = 0
          /\ results[i].status = "changed" => results[i].editCount >= 1
    /\ results # <<>> => CountsEveryDifference

\* a finished run of packages/cli with a changed file and a failed file
C30_Witness ==
    /\ pc = "done"
    /\ cli = "packages"
    /\ Len(results) = 2
    /\ results[1].status = "changed"
    /\ results[1].editCount = countChanges(InitialDisk[targets[1]],
                                           CanonicalText(targets[1]))
    /\ results[1].editCount >= 1
    /\ results[2].status = "error"
    /\ results[2].editCount = 0
====
